---- MODULE Spec2Model ----
(***************************************************************************)
(* Model of the log aggregation filter src/fluent-bit/aggregate.lua, of    *)
(* the retrying client (doRequestWithRetry, worker) and of the server      *)
(* (traceMiddleware, handleHello, handleMetrics, main), and of the path    *)
(* of a log line from the server's file through the filter to the output.  *)
(*                                                                         *)
(* Lua values are modelled as tagged values [type, val]; the payload of a  *)
(* string is its sequence of words, so that string.find (substring search) *)
(* and table.concat (joining with a separator) are computed, not assumed.  *)
(* The module-level locals of the script (buffer, buffer_order,            *)
(* cleanup_counter) are the state; os.time() is the variable now, advanced *)
(* by the environment action Tick: a clock in seconds that never goes      *)
(* back.  The record of a call is a table, as Fluent Bit delivers it.      *)
(***************************************************************************)
EXTENDS Integers, Sequences, FiniteSets, TLC

\* ------------------------------------------------------------------ bounds
\* The largest value of the clock, and the largest number of calls of
\* combine_logs in one behaviour.
MaxTime == 2
MaxCalls == 4
\* The calls of one behaviour of SpecSweep and of SpecFields.
MaxSweepCalls == 6
MaxFieldCalls == 3
\* The client: the largest -retries and the largest -count of a run, and the
\* largest status code given to isRetryableError.
MaxRetries == 3
MaxJobs == 2
MaxStatusCode == 600
\* The server: the requests of one behaviour.
MaxRequests == 2
\* The largest maxRetries of SpecBackoff: the shift 1 << attempt goes past the
\* 64 bits of an int64.
MaxBackoffRetries == 66
\* The jobs and the workers of SpecPool.
MaxPoolJobs == 3
MaxWorkers == 2

\* ------------------------------------------------------- program constants
\* aggregate.lua:8, :9, :11, scaled down so that capacity eviction and the
\* periodic cleanup happen within the bounds.
MAX_BUFFER_SIZE == 2
STALE_TIMEOUT_SEC == 1
CLEANUP_INTERVAL == 3

\* ------------------------------------------------------------- Lua values
Nil == [type |-> "nil", val |-> <<>>]
Str(words) == [type |-> "string", val |-> words]
Num(digits) == [type |-> "number", val |-> <<digits>>]

\* string.find(message, "request completed") ~= nil: plain substring search.
Contains(s, m) ==
    \E i \in 0..(Len(s) - Len(m)) : SubSeq(s, i + 1, i + Len(m)) = m

COMPLETION_MARKER == <<"request", "completed">>

\* table.concat(list, sep) on a list of strings (word sequences).
RECURSIVE table_concat(_, _)
table_concat(list, sep) ==
    IF Len(list) = 0 THEN <<>>
    ELSE IF Len(list) = 1 THEN list[1]
    ELSE list[1] \o sep \o table_concat(Tail(list), sep)

NEWLINE == <<"\n">>

\* Lua's `a or b`: b when a is nil (false does not occur in the records).
LuaOr(a, b) == IF a = Nil THEN b ELSE a

\* --------------------------------------------------------------- records
TraceIds == {<<"a">>, <<"b">>, <<"c">>}

\* A record delivered by the log producer.
Rec(t, m, me, p, s, l) ==
    [traceId |-> t, message |-> m, method |-> me, path |-> p,
     status |-> s, latencyMs |-> l]

StatusFields == {"method", "path", "status", "latencyMs"}

VARIABLES
    buffer,           \* traceId -> entry, defined on the live traceIds
    buffer_order,     \* LRU order: sequence of traceIds, oldest first
    cleanup_counter,  \* calls since the last periodic cleanup
    now,              \* os.time()
    calls,            \* number of calls of combine_logs so far
    last,             \* the last call: its record and what it did and returned
    hist,             \* per traceId: its calls since its last flush
    first,            \* per traceId: the index in hist of the call that
                      \* created its current group
    run,              \* the current block of consecutive calls with one traceId
    idle,             \* per traceId: the time of its last record, and the
                      \* calls made since while it was idle for too long
    stamp,            \* per traceId: the number of the call of its last record
    lost              \* per traceId: how many of the calls of hist went to a
                      \* group that was evicted or removed as stale

\* The client (src/client/main.go): one worker and the call of
\* doRequestWithRetry it is in.
VARIABLES
    cfg,              \* the configuration: maxRetries, and whether target is
                      \* a URL http.NewRequest accepts
    jobs,             \* the job ids still in the jobs channel
    pc,               \* where the worker is: "idle" at the range over jobs,
                      \* "loop" at the head of the retry loop, "wait" in
                      \* client.Do, "sleep" in the
                      \* backoff, "done" after the call returned, "exit"
    traceID,          \* the X-Trace-Id of the job the worker is on
    issued,           \* the traceIDs uuid.NewString() has returned so far
    attempt,          \* the loop variable of doRequestWithRetry
    lastErr,          \* whether lastErr is non-nil
    lastStatusCode,
    success,          \* the first value doRequestWithRetry returned
    requests,         \* the outcomes of the requests the call has sent
    sleeps,           \* the backoffs the call has slept (int64 nanoseconds)
    probe             \* isRetryableError on its own: arguments and result

client == <<cfg, jobs, pc, traceID, issued, attempt, lastErr, lastStatusCode,
            success, requests, sleeps, probe>>

\* The server (src/server/main.go): main, the goroutine of ListenAndServe and
\* the requests being served.
VARIABLES
    requestCount,
    errorCount,
    totalLatencyMs,
    metricsMutex,     \* the RWMutex: the request holding Lock (0: none) and
                      \* the requests holding RLock
    reqs,             \* per request: where its goroutine is and its locals
    mainpc,           \* where main is
    listen,           \* where the goroutine of ListenAndServe is
    sigChan,          \* whether a signal is waiting in sigChan
    serverErrChan,    \* whether an error is waiting in serverErrChan
    file,             \* the log file: written since the last Sync (dirty),
                      \* closed, and the number of Syncs so far
    logfile           \* the lines of the log file

server == <<requestCount, errorCount, totalLatencyMs, metricsMutex, reqs, mainpc,
            listen, sigChan, serverErrChan, file, logfile>>

\* Fluent Bit: the tail input that reads the log file, the filter that calls
\* combine_logs, and the output.
VARIABLES
    offset,           \* the number of lines of the log file read so far
    sink              \* the records sent to the output, in order

fluentbit == <<offset, sink>>

\* The worker pool of the client (main and worker of src/client/main.go).
VARIABLES
    poolCfg,          \* the configuration: total and concurrency
    mainAt,           \* where main is: "spawn", "enqueue", "wait", "finished"
    loop,             \* the loop variable i of the loop main is in
    jobsChan,         \* the job ids in the buffer of the channel jobs
    jobsClosed,       \* whether close(jobs) has been called
    wg,               \* the counter of the WaitGroup
    workers           \* per worker: where it is, the job it is on, whether
                      \* its last request succeeded, the jobs it has taken

pool == <<poolCfg, mainAt, loop, jobsChan, jobsClosed, wg, workers>>

state == <<buffer, buffer_order, cleanup_counter>>
history == <<calls, last, hist, first, run, idle, stamp, lost>>
aggregator == <<state, now, history>>
vars == <<buffer, buffer_order, cleanup_counter, now, calls, last, hist, first,
          run, idle, stamp, lost, cfg, jobs, pc, traceID, issued, attempt,
          lastErr, lastStatusCode, success, requests, sleeps, probe,
          requestCount, errorCount, totalLatencyMs, metricsMutex, reqs, mainpc,
          listen, sigChan, serverErrChan, file, logfile, offset, sink,
          poolCfg, mainAt, loop, jobsChan, jobsClosed, wg, workers>>

\* ------------------------------------------------------ sequence helpers
\* table.remove(list, i) for the first i with list[i] = x, if any.
RemoveFirst(list, x) ==
    IF \E i \in 1..Len(list) : list[i] = x
    THEN LET i == CHOOSE j \in 1..Len(list) :
                      list[j] = x /\ \A h \in 1..(j - 1) : list[h] # x
         IN SubSeq(list, 1, i - 1) \o SubSeq(list, i + 1, Len(list))
    ELSE list

EmptyBuffer == [k \in {} |-> Nil]

\* Drop that leaves the entries in the buffer.
Drop_Nothing(buf, ids) == buf

\* buffer[traceId] = nil
Drop(buf, ids) == [k \in (DOMAIN buf) \ ids |-> buf[k]]

\* ---------------------------------------------------------- cleanup_buffer
\* StaleTraceIds that finds no entry stale.
StaleTraceIds_None(buf, current_time) == {}

\* StaleTraceIds with a timeout one second longer.
StaleTraceIds_Longer(buf, current_time) ==
    {k \in DOMAIN buf :
        (current_time - buf[k].last_seen) > STALE_TIMEOUT_SEC + 1}

\* StaleTraceIds that takes an entry as old as the timeout for stale.
StaleTraceIds_AtTimeout(buf, current_time) ==
    {k \in DOMAIN buf :
        (current_time - buf[k].last_seen) >= STALE_TIMEOUT_SEC}

\* The traceIds collected by the first loop of cleanup_buffer.
StaleTraceIds(buf, current_time) ==
    {k \in DOMAIN buf : (current_time - buf[k].last_seen) > STALE_TIMEOUT_SEC}

\* RemoveAll that leaves the order as it is.
RemoveAll_Nothing(list, ids) == list

\* The second loop: each stale traceId leaves buffer and buffer_order.  The
\* iteration order of pairs() does not show in the result.
RECURSIVE RemoveAll(_, _)
RemoveAll(list, ids) ==
    IF ids = {} THEN list
    ELSE LET x == CHOOSE y \in ids : TRUE
         IN RemoveAll(RemoveFirst(list, x), ids \ {x})

\* The while loop that enforces MAX_BUFFER_SIZE: returns [buf, ord].
RECURSIVE EnforceMax(_, _)
EnforceMax(buf, ord) ==
    IF Len(ord) > MAX_BUFFER_SIZE
    THEN EnforceMax(Drop(buf, {Head(ord)}), Tail(ord))
    ELSE [buf |-> buf, ord |-> ord]

\* cleanup_buffer that leaves the counter running when the cleanup runs.
cleanup_buffer_NoReset(buf, ord, counter, current_time) ==
    IF counter + 1 < CLEANUP_INTERVAL
    THEN [buf |-> buf, ord |-> ord, counter |-> counter + 1, swept |-> FALSE,
          removed |-> {}]
    ELSE LET stale == StaleTraceIds(buf, current_time)
             e == EnforceMax(Drop(buf, stale), RemoveAll(ord, stale))
         IN [buf |-> e.buf, ord |-> e.ord, counter |-> counter + 1,
             swept |-> TRUE, removed |-> (DOMAIN buf) \ (DOMAIN e.buf)]

\* cleanup_buffer whose first loop finds nothing stale.
cleanup_buffer_NoStale(buf, ord, counter, current_time) ==
    IF counter + 1 < CLEANUP_INTERVAL
    THEN [buf |-> buf, ord |-> ord, counter |-> counter + 1, swept |-> FALSE,
          removed |-> {}]
    ELSE LET e == EnforceMax(buf, ord)
         IN [buf |-> e.buf, ord |-> e.ord, counter |-> 0, swept |-> TRUE,
             removed |-> (DOMAIN buf) \ (DOMAIN e.buf)]

\* cleanup_buffer(current_time): the new buffer, order and counter; swept
\* tells whether the cleanup ran and removed which traceIds it took out.
cleanup_buffer(buf, ord, counter, current_time) ==
    IF counter + 1 < CLEANUP_INTERVAL
    THEN [buf |-> buf, ord |-> ord, counter |-> counter + 1, swept |-> FALSE,
          removed |-> {}]
    ELSE LET stale == StaleTraceIds(buf, current_time)
             e == EnforceMax(Drop(buf, stale), RemoveAll(ord, stale))
         IN [buf |-> e.buf, ord |-> e.ord, counter |-> 0, swept |-> TRUE,
             removed |-> (DOMAIN buf) \ (DOMAIN e.buf)]

\* ---------------------------------------------------------- update_lru_order
\* update_lru_order that leaves the traceId where it is.
update_lru_order_NoMove(ord, traceId) == ord

\* update_lru_order that puts the traceId at the front.
update_lru_order_Front(ord, traceId) == <<traceId>> \o RemoveFirst(ord, traceId)

update_lru_order(ord, traceId) == Append(RemoveFirst(ord, traceId), traceId)

\* ------------------------------------------------------------ combine_logs
\* ValidTraceId without the test for the type.
ValidTraceId_AnyType(t) == t # Nil /\ t.val # <<>>

\* ValidTraceId without the test for the empty string.
ValidTraceId_AcceptsEmpty(t) == t # Nil /\ t.type = "string"

ValidTraceId(t) == t # Nil /\ t.type = "string" /\ t.val # <<>>

\* The message the call works with: record["message"] or "".
MessageOf(record) == LuaOr(record.message, Str(<<>>)).val

\* IsComplete that takes the message to be the marker and nothing else.
IsComplete_WholeMessage(record) == MessageOf(record) = COMPLETION_MARKER

IsComplete(record) == Contains(MessageOf(record), COMPLETION_MARKER)

\* NewEntry that does not take the time of the call.
NewEntry_NoTime(traceId, record, current_time) ==
    [traceId |-> traceId,
     messages |-> <<>>,
     method |-> LuaOr(record.method, Nil),
     path |-> LuaOr(record.path, Nil),
     status |-> LuaOr(record.status, Nil),
     latencyMs |-> LuaOr(record.latencyMs, Nil),
     last_seen |-> 0,
     completed |-> FALSE]

\* NewEntry that creates the entry as completed.
NewEntry_Completed(traceId, record, current_time) ==
    [traceId |-> traceId,
     messages |-> <<>>,
     method |-> LuaOr(record.method, Nil),
     path |-> LuaOr(record.path, Nil),
     status |-> LuaOr(record.status, Nil),
     latencyMs |-> LuaOr(record.latencyMs, Nil),
     last_seen |-> current_time,
     completed |-> TRUE]

\* The entry created for a traceId that has none (aggregate.lua:96-105).
NewEntry(traceId, record, current_time) ==
    [traceId |-> traceId,
     messages |-> <<>>,
     method |-> LuaOr(record.method, Nil),
     path |-> LuaOr(record.path, Nil),
     status |-> LuaOr(record.status, Nil),
     latencyMs |-> LuaOr(record.latencyMs, Nil),
     last_seen |-> current_time,
     completed |-> FALSE]

\* EvictOldest that evicts one entry before the order is full.
EvictOldest_Early(buf, ord) ==
    IF Len(ord) >= MAX_BUFFER_SIZE - 1
    THEN [buf |-> Drop(buf, {Head(ord)}), ord |-> Tail(ord),
          evicted |-> {Head(ord)} \cap DOMAIN buf]
    ELSE [buf |-> buf, ord |-> ord, evicted |-> {}]

\* EvictOldest that evicts only once the order is over the limit.
EvictOldest_OffByOne(buf, ord) ==
    IF Len(ord) > MAX_BUFFER_SIZE
    THEN [buf |-> Drop(buf, {Head(ord)}), ord |-> Tail(ord),
          evicted |-> {Head(ord)} \cap DOMAIN buf]
    ELSE [buf |-> buf, ord |-> ord, evicted |-> {}]

\* Eviction of the oldest entry when the order is full (aggregate.lua:88-94).
EvictOldest(buf, ord) ==
    IF Len(ord) >= MAX_BUFFER_SIZE
    THEN [buf |-> Drop(buf, {Head(ord)}), ord |-> Tail(ord),
          evicted |-> {Head(ord)} \cap DOMAIN buf]
    ELSE [buf |-> buf, ord |-> ord, evicted |-> {}]

\* UpdateField without the test for nil: an absent field clears the value.
UpdateField_Overwrite(old, new) == new

\* `if record[f] ~= nil then entry[f] = record[f] end`
UpdateField(old, new) == IF new # Nil THEN new ELSE old

\* Accumulate that keeps the message of the record only.
Accumulate_Replace(entry, record) ==
    [entry EXCEPT
        !.messages = <<MessageOf(record)>>,
        !.method = UpdateField(@, record.method),
        !.path = UpdateField(@, record.path),
        !.status = UpdateField(@, record.status),
        !.latencyMs = UpdateField(@, record.latencyMs)]

\* Accumulate with the message put in front of the list.
Accumulate_Prepend(entry, record) ==
    [entry EXCEPT
        !.messages = <<MessageOf(record)>> \o @,
        !.method = UpdateField(@, record.method),
        !.path = UpdateField(@, record.path),
        !.status = UpdateField(@, record.status),
        !.latencyMs = UpdateField(@, record.latencyMs)]

\* Appending the message and storing the fields present (aggregate.lua:120-135).
Accumulate(entry, record) ==
    [entry EXCEPT
        !.messages = Append(@, MessageOf(record)),
        !.method = UpdateField(@, record.method),
        !.path = UpdateField(@, record.path),
        !.status = UpdateField(@, record.status),
        !.latencyMs = UpdateField(@, record.latencyMs)]

\* The combined record of a completed entry (aggregate.lua:141-148).
Combined(entry) ==
    [traceId |-> Str(entry.traceId),
     message |-> Str(table_concat(entry.messages, NEWLINE)),
     method |-> entry.method,
     path |-> entry.path,
     status |-> entry.status,
     latencyMs |-> entry.latencyMs]

\* Flush that leaves the entry in buffer.
Flush_KeepsEntry(buf, ord, traceId) ==
    [buf |-> buf, ord |-> RemoveFirst(ord, traceId)]

\* The entry leaves buffer and buffer_order once it is combined
\* (aggregate.lua:150-158).
Flush(buf, ord, traceId) ==
    [buf |-> Drop(buf, {traceId}), ord |-> RemoveFirst(ord, traceId)]

\* What a call returns: the code, the record, and the return statement taken.
Ret(code, record, at) == [code |-> code, record |-> record, at |-> at]

\* Put that stores the entry under every traceId of the buffer.
Put_Everywhere(buf, traceId, entry) ==
    [k \in (DOMAIN buf) \cup {traceId} |-> entry]

\* buffer[traceId] = entry
Put(buf, traceId, entry) ==
    [k \in (DOMAIN buf) \cup {traceId} |-> IF k = traceId THEN entry ELSE buf[k]]

\* The whole call, as a function of the state: the new buffer, order and
\* counter and the return value, and what the call did on the way: whether
\* the periodic cleanup ran (swept), the traceIds it removed (removed), the
\* traceId evicted for lack of room (evicted), whether an entry was created.
Outcome(buf, ord, counter, current_time, record) ==
    IF ~ValidTraceId(record.traceId)
    THEN [buf |-> buf, ord |-> ord, counter |-> counter, swept |-> FALSE,
          removed |-> {}, evicted |-> {}, created |-> FALSE,
          ret |-> Ret(1, record, "pass")]
    ELSE
    LET traceId == record.traceId.val
        c == cleanup_buffer(buf, ord, counter, current_time)
        is_complete == IsComplete(record)
        created == traceId \notin DOMAIN c.buf
        e == IF created THEN EvictOldest(c.buf, c.ord)
             ELSE [buf |-> c.buf, ord |-> c.ord, evicted |-> {}]
        buf1 == IF created
                THEN Put(e.buf, traceId, NewEntry(traceId, record, current_time))
                ELSE [e.buf EXCEPT ![traceId].last_seen = current_time]
        ord1 == IF created THEN Append(e.ord, traceId)
                ELSE update_lru_order(e.ord, traceId)
        did == [counter |-> c.counter, swept |-> c.swept, removed |-> c.removed,
                evicted |-> e.evicted, created |-> created]
    IN
    IF ~created /\ buf1[traceId].completed /\ is_complete
    THEN [buf |-> buf1, ord |-> ord1, ret |-> Ret(-1, record, "duplicate")] @@ did
    ELSE
    LET buf2 == [buf1 EXCEPT ![traceId] = Accumulate(@, record)]
        buf3 == [buf2 EXCEPT ![traceId].completed = TRUE]
        f == Flush(buf3, ord1, traceId)
    IN
    IF is_complete
    THEN [buf |-> f.buf, ord |-> f.ord,
          ret |-> Ret(1, Combined(buf3[traceId]), "emit")] @@ did
    ELSE [buf |-> buf2, ord |-> ord1, ret |-> Ret(-1, record, "suppress")] @@ did

\* -------------------------------------------------------------- the inputs
HandlerFinished == Str(<<"handler", "finished">>)
RequestCompleted == Str(<<"request", "completed">>)
A == <<"a">>
B == <<"b">>
C == <<"c">>

\* A line of traceId k with message m and no status field.
Line(k, m) == Rec(Str(k), m, Nil, Nil, Nil, Nil)

\* Records without a valid traceId: absent, empty, not a string.
InvalidRecords ==
    {Rec(t, HandlerFinished, Nil, Nil, Nil, Nil) : t \in {Nil, Str(<<>>), Num("7")}}

\* Spec: three traceIds for a buffer of two, a completion, the records
\* without traceId.
Records ==
    {Line(A, HandlerFinished), Line(B, HandlerFinished), Line(C, HandlerFinished),
     Line(A, RequestCompleted)} \cup InvalidRecords

\* SpecSeq: the lines of one request (no message, a message, the marker, the
\* marker inside a longer message) and a line of another request.
SeqRecords ==
    {Line(A, Nil), Line(A, HandlerFinished), Line(A, RequestCompleted),
     Line(A, Str(<<"GET", "request", "completed">>)), Line(B, HandlerFinished)}

\* SpecFields: the lines of one request with and without status fields.
FieldRecords ==
    {Line(A, HandlerFinished),
     Rec(Str(A), HandlerFinished, Nil, Nil, Num("200"), Nil),
     Rec(Str(A), HandlerFinished, Nil, Nil, Num("500"), Nil),
     Rec(Str(A), HandlerFinished, Str(<<"GET">>), Str(<<"/hello">>), Nil, Nil),
     Line(A, RequestCompleted),
     Rec(Str(A), RequestCompleted, Nil, Nil, Num("200"), Num("52"))}

\* SpecSweep: lines that complete nothing, and the records without traceId.
SweepRecords ==
    {Line(A, HandlerFinished), Line(B, HandlerFinished)} \cup InvalidRecords

\* SpecEmit: completion signals, alone or inside a longer message, for two
\* requests and without traceId, and a line that completes nothing.
EmitRecords ==
    {Line(A, HandlerFinished), Line(A, RequestCompleted),
     Line(A, Str(<<"GET", "request", "completed">>)), Line(B, RequestCompleted),
     Rec(Nil, RequestCompleted, Nil, Nil, Nil, Nil),
     Rec(Str(<<>>), RequestCompleted, Nil, Nil, Nil, Nil)}

\* SpecFrame: three requests whose lines differ in message and status
\* fields, two of them with their completion.
FrameRecords ==
    {Rec(Str(A), Str(<<"one">>), Nil, Nil, Num("200"), Nil),
     Rec(Str(A), RequestCompleted, Nil, Nil, Nil, Num("52")),
     Rec(Str(B), Str(<<"two">>), Nil, Str(<<"/hello">>), Num("500"), Nil),
     Rec(Str(B), Str(<<"two", "request", "completed">>), Nil, Nil, Nil, Nil),
     Line(C, Str(<<"three">>))}

\* ------------------------------------------------------- history variables
NoRecord == Rec(Nil, Nil, Nil, Nil, Nil, Nil)

NoCall ==
    [record |-> NoRecord, ret |-> Ret(0, NoRecord, "none"), time |-> 0,
     swept |-> FALSE, removed |-> {}, evicted |-> {}, created |-> FALSE,
     before |-> {}]

\* The records that belong to a request: the traceId is one of the strings
\* the producer uses.
Keyed(record) == record.traceId.type = "string" /\ record.traceId.val \in TraceIds

NoRun == [key |-> <<>>, n |-> 0]

Min(x, y) == IF x < y THEN x ELSE y

\* hist after a call for traceId k: the call joins the calls since the last
\* flush of k; a call after a flush starts the list again.
HistAfter(h, k, e) ==
    IF h[k] # <<>> /\ h[k][Len(h[k])].at = "emit"
    THEN [h EXCEPT ![k] = <<e>>]
    ELSE [h EXCEPT ![k] = Append(@, e)]

\* idle after a call at time t: the traceId of the call is idle no longer.
\* Any other traceId counts the calls for other requests (others) and, once
\* it is idle for more than STALE_TIMEOUT_SEC, the calls (all) and the calls
\* for other requests (valid).  The counts stop at CLEANUP_INTERVAL.
IdleAfter(d, record, t) ==
    [k \in TraceIds |->
        IF Keyed(record) /\ record.traceId.val = k
        THEN [at |-> t, all |-> 0, valid |-> 0, others |-> 0]
        ELSE IF d[k].at < 0 THEN d[k]
        ELSE LET late == t - d[k].at > STALE_TIMEOUT_SEC
                 inc(n, cond) == IF cond THEN Min(n + 1, CLEANUP_INTERVAL) ELSE n
             IN [at |-> d[k].at,
                 all |-> inc(d[k].all, late),
                 valid |-> inc(d[k].valid, late /\ Keyed(record)),
                 others |-> inc(d[k].others, Keyed(record))]]

\* lost after a call that dropped the groups of the traceIds in dropped: the
\* calls h[j] made so far for a dropped traceId j are lost; a call after a
\* flush starts the list again, with nothing lost.
LostAfter(l, h, record, dropped) ==
    [j \in TraceIds |->
        IF j \in dropped THEN Len(h[j])
        ELSE IF /\ Keyed(record) /\ record.traceId.val = j
                /\ h[j] # <<>> /\ h[j][Len(h[j])].at = "emit"
        THEN 0
        ELSE l[j]]

\* ------------------------------------------------------------- the client
\* isRetryableError without the test for 429.
isRetryableError_No429(err, statusCode) ==
    IF err THEN TRUE ELSE statusCode >= 500

\* isRetryableError that retries every status from 400 on.
isRetryableError_All4xx(err, statusCode) ==
    IF err THEN TRUE ELSE statusCode >= 400

\* isRetryableError(err, statusCode); err stands for err != nil.
isRetryableError(err, statusCode) ==
    IF err THEN TRUE ELSE statusCode >= 500 \/ statusCode = 429

\* Succeeded that takes 200 alone for a success.
Succeeded_Only200(resp) == ~resp.err /\ resp.status = 200

\* `if err == nil && lastStatusCode < 400`: the request succeeded.
Succeeded(resp) == ~resp.err /\ resp.status < 400

\* InLoop that lets the loop run once more.
InLoop_OneMore(n, c) == n <= c.maxRetries + 1

\* The condition of the retry loop: `attempt <= cfg.maxRetries`.
InLoop(n, c) == n <= c.maxRetries

\* What client.Do returns: an error, or a response with a status code.
NetworkError == [err |-> TRUE, status |-> 0]
Response(s) == [err |-> FALSE, status |-> s]
StatusCodes == {200, 204, 301, 399, 400, 404, 429, 499, 500, 503}
Responses == {NetworkError} \cup {Response(s) : s \in StatusCodes}

\* int64 values (time.Duration counts nanoseconds in an int64) in two's
\* complement, as four words of 16 bits, the lowest first.
Word == 2^16
Int64(n) == <<n % Word, n \div Word, 0, 0>>

\* 1 << k for a uint k on an int64: the bit shifted out of the 64 is lost.
ShiftLeftOne(k) ==
    IF k >= 64 THEN Int64(0)
    ELSE [i \in 1..4 |-> IF i = (k \div 16) + 1 THEN 2^(k % 16) ELSE 0]

\* x * c on int64, for 0 <= c <= 1000: the product wraps around at 2^64.
Mul(x, c) ==
    LET p1 == x[1] * c
        p2 == x[2] * c + (p1 \div Word)
        p3 == x[3] * c + (p2 \div Word)
        p4 == x[4] * c + (p3 \div Word)
    IN <<p1 % Word, p2 % Word, p3 % Word, p4 % Word>>

Negative(x) == x[4] >= 2^15

\* x > y on int64.
Greater(x, y) ==
    IF Negative(x) # Negative(y) THEN Negative(y)
    ELSE \E i \in 1..4 : x[i] > y[i] /\ \A j \in (i + 1)..4 : x[j] = y[j]

\* time.Millisecond is 1000 * 1000 nanoseconds.
TimesMillisecond(x) == Mul(Mul(x, 1000), 1000)

\* 2 * time.Second
TwoSeconds == Int64(2000000000)

\* backoff := time.Duration(1<<uint(attempt)) * 100 * time.Millisecond, and
\* 2 * time.Second when it is more than that.
Backoff(n) ==
    LET backoff == TimesMillisecond(Mul(ShiftLeftOne(n), 100))
    IN IF Greater(backoff, TwoSeconds) THEN TwoSeconds ELSE backoff

DefaultConfig == [maxRetries |-> 3, target |-> TRUE]
Configs == [maxRetries : -1..MaxRetries, target : BOOLEAN]

NoProbe == [err |-> FALSE, statusCode |-> 0, called |-> FALSE, result |-> FALSE]

\* The client before its worker starts, with total jobs in the channel.
ClientInit(c, total) ==
    /\ cfg = c
    /\ jobs = [i \in 1..total |-> i]
    /\ pc = "idle"
    /\ traceID = <<>>
    /\ issued = {}
    /\ attempt = 0
    /\ lastErr = FALSE
    /\ lastStatusCode = 0
    /\ success = FALSE
    /\ requests = <<>>
    /\ sleeps = <<>>

\* worker takes the next job from the channel, draws its traceID and calls
\* doRequestWithRetry.
TakeJob ==
    /\ pc = "idle"
    /\ jobs # <<>>
    /\ \E id \in TraceIds \ issued :
           /\ traceID' = id
           /\ issued' = issued \cup {id}
    /\ jobs' = Tail(jobs)
    /\ pc' = "loop"
    /\ attempt' = 0
    /\ lastErr' = FALSE
    /\ lastStatusCode' = 0
    /\ success' = FALSE
    /\ requests' = <<>>
    /\ sleeps' = <<>>
    /\ UNCHANGED <<cfg, probe>>

\* The pass of the retry loop from the return of client.Do, with resp, up to
\* the backoff.
AfterResponse(resp) ==
    /\ requests' = Append(requests, resp)
    /\ lastErr' = (resp.err \/ lastErr)
    /\ lastStatusCode' = resp.status
    /\ IF Succeeded(resp)
       THEN pc' = "done" /\ success' = TRUE /\ UNCHANGED attempt
       ELSE IF ~isRetryableError(resp.err, resp.status)
       THEN pc' = "done" /\ success' = FALSE /\ UNCHANGED attempt
       ELSE IF attempt < cfg.maxRetries
       THEN pc' = "sleep" /\ UNCHANGED <<success, attempt>>
       ELSE pc' = "loop" /\ attempt' = attempt + 1 /\ UNCHANGED success

\* One pass of the retry loop up to the backoff: the request is built and
\* sent, and resp is what client.Do returns.
Attempt(resp) ==
    /\ pc = "loop"
    /\ InLoop(attempt, cfg)
    /\ IF ~cfg.target
       THEN /\ pc' = "done"
            /\ success' = FALSE
            /\ UNCHANGED <<attempt, lastErr, lastStatusCode, requests>>
       ELSE AfterResponse(resp)
    /\ UNCHANGED <<cfg, jobs, traceID, issued, sleeps, probe>>

\* The first half of a pass, against the server of this repository: the
\* request is built and client.Do is called.
Send ==
    /\ pc = "loop"
    /\ InLoop(attempt, cfg)
    /\ cfg.target
    /\ pc' = "wait"
    /\ UNCHANGED <<cfg, jobs, traceID, issued, attempt, lastErr, lastStatusCode,
                   success, requests, sleeps, probe>>

\* The second half: client.Do returns resp, the response of the server or
\* the error of the client's timeout.
Receive(resp) ==
    /\ pc = "wait"
    /\ AfterResponse(resp)
    /\ UNCHANGED <<cfg, jobs, traceID, issued, sleeps, probe>>

\* time.Sleep(backoff), and the loop goes on with the next attempt.
Sleep ==
    /\ pc = "sleep"
    /\ sleeps' = Append(sleeps, Backoff(attempt))
    /\ attempt' = attempt + 1
    /\ pc' = "loop"
    /\ UNCHANGED <<cfg, jobs, traceID, issued, lastErr, lastStatusCode, success,
                   requests, probe>>

\* The loop ends with all retries exhausted: return false, 0.
Exhausted ==
    /\ pc = "loop"
    /\ ~InLoop(attempt, cfg)
    /\ pc' = "done"
    /\ success' = FALSE
    /\ UNCHANGED <<cfg, jobs, traceID, issued, attempt, lastErr, lastStatusCode,
                   requests, sleeps, probe>>

\* worker logs the outcome, sleeps cfg.interval and ranges on.
JobDone ==
    /\ pc = "done"
    /\ pc' = "idle"
    /\ UNCHANGED <<cfg, jobs, traceID, issued, attempt, lastErr, lastStatusCode,
                   success, requests, sleeps, probe>>

\* The channel is closed and empty: the worker returns.
WorkerExit ==
    /\ pc = "idle"
    /\ jobs = <<>>
    /\ pc' = "exit"
    /\ UNCHANGED <<cfg, jobs, traceID, issued, attempt, lastErr, lastStatusCode,
                   success, requests, sleeps, probe>>

\* isRetryableError called with the arguments of probe.
CallIsRetryable ==
    /\ ~probe.called
    /\ probe' = [probe EXCEPT !.called = TRUE,
                              !.result = isRetryableError(probe.err, probe.statusCode)]
    /\ UNCHANGED <<cfg, jobs, pc, traceID, issued, attempt, lastErr,
                   lastStatusCode, success, requests, sleeps>>

\* ------------------------------------------------------------- the server
\* strconv of the numbers the server logs (json.Marshal of an int).
Itoa(n) ==
    CASE n = 0 -> "0" [] n = 50 -> "50" [] n = 52 -> "52"
      [] n = 200 -> "200" [] n = 500 -> "500"

\* A line main writes to the log file: a message and no traceId.
ServerLine(words) == Rec(Nil, Str(words), Nil, Nil, Nil, Nil)

\* logJSON(logEntry{...}) of a request: every field of logEntry is written.
RequestLine(r, words, status, latency) ==
    Rec(Str(r.traceID), Str(words), Str(<<"GET">>), Str(<<r.path>>),
        Num(Itoa(status)), Num(Itoa(latency)))

\* LogAfterWrite that writes at the start of the file.
LogAfterWrite_AtStart(l, f, line) == IF f.closed THEN l ELSE <<line>> \o l

\* fileLogger.Printf: the line is appended to the file, unless the file is
\* closed and the write fails.
LogAfterWrite(l, f, line) == IF f.closed THEN l ELSE Append(l, line)
FileAfterWrite(f) == IF f.closed THEN f ELSE [f EXCEPT !.dirty = TRUE]

\* file.Sync()
FileAfterSync(f) == [f EXCEPT !.dirty = FALSE, !.syncs = @ + 1]

\* The latencies time.Since(start).Milliseconds() takes in the model.
Latencies == {50, 52}
Paths == {"/hello", "/metrics"}
Uuid(i) == <<<<"u1">>, <<"u2">>, <<"u3">>, <<"u4">>>>[i]

NoSnap == [avgCount |-> -1, total |-> -1, count |-> -1, errors |-> -1]
NoReq ==
    [pc |-> "none", path |-> "", traceID |-> <<>>, status |-> 0, latency |-> 0,
     tmp |-> 0, snap |-> NoSnap]

\* CanLock that does not wait for anyone.
CanLock_Always(m) == TRUE

\* metricsMutex.Lock() returns: no one holds Lock or RLock.
CanLock(m) == m.writer = 0 /\ m.readers = {}

\* metricsMutex.RLock() returns: no one holds Lock.
CanRLock(m) == m.writer = 0

\* The requests being served: the handler chain has not returned.
InFlight == {i \in 1..MaxRequests : reqs[i].pc \notin {"none", "done"}}

\* The process runs.
Alive == mainpc # "exited"

\* main at its select, the listener not started, no request.
ServerInit ==
    /\ requestCount = 0
    /\ errorCount = 0
    /\ totalLatencyMs = 0
    /\ metricsMutex = [writer |-> 0, readers |-> {}]
    /\ reqs = [i \in 1..MaxRequests |-> NoReq]
    /\ mainpc = "select"
    /\ listen = "init"
    /\ sigChan = FALSE
    /\ serverErrChan = FALSE
    /\ file = [dirty |-> FALSE, closed |-> FALSE, syncs |-> 0]
    /\ logfile = <<>>

\* main at its select and the server listening, "server starting" logged.
ServerServing ==
    /\ requestCount = 0
    /\ errorCount = 0
    /\ totalLatencyMs = 0
    /\ metricsMutex = [writer |-> 0, readers |-> {}]
    /\ reqs = [i \in 1..MaxRequests |-> NoReq]
    /\ mainpc = "select"
    /\ listen = "listening"
    /\ sigChan = FALSE
    /\ serverErrChan = FALSE
    /\ file = [dirty |-> TRUE, closed |-> FALSE, syncs |-> 0]
    /\ logfile = <<ServerLine(<<"server", "starting">>)>>

\* traceMiddleware up to next.ServeHTTP: a request arrives, with the header
\* X-Trace-Id or without (<<>>), and then uuid.NewString() is its traceID.
Arrive(i, path, header) ==
    /\ Alive
    /\ mainpc = "select"
    /\ listen = "listening"
    /\ reqs[i].pc = "none"
    /\ IF i = 1 THEN TRUE ELSE reqs[i - 1].pc # "none"
    /\ reqs' = [reqs EXCEPT ![i] =
                   [NoReq EXCEPT !.pc = "handler", !.path = path,
                                 !.traceID = IF header = <<>> THEN Uuid(i)
                                             ELSE header,
                                 !.status = 200]]
    /\ UNCHANGED <<requestCount, errorCount, totalLatencyMs, metricsMutex, mainpc,
                   listen, sigChan, serverErrChan, file, logfile>>

\* handleHello: the response is encoded (ok) or not, and the line is logged.
HandleHello(i, ok) ==
    /\ Alive
    /\ reqs[i].pc = "handler"
    /\ reqs[i].path = "/hello"
    /\ LET status == IF ok THEN 200 ELSE 500
           words == IF ok THEN <<"handler", "finished">>
                    ELSE <<"failed", "to", "encode", "response">>
       IN /\ reqs' = [reqs EXCEPT ![i].pc = "returned", ![i].status = status]
          /\ logfile' = LogAfterWrite(logfile, file,
                                      RequestLine(reqs[i], words, status, 0))
          /\ file' = FileAfterWrite(file)
    /\ UNCHANGED <<requestCount, errorCount, totalLatencyMs, metricsMutex, mainpc,
                   listen, sigChan, serverErrChan>>

\* handleMetrics: metricsMutex.RLock()
RLock(i) ==
    /\ Alive
    /\ reqs[i].pc = "handler"
    /\ reqs[i].path = "/metrics"
    /\ CanRLock(metricsMutex)
    /\ metricsMutex' = [metricsMutex EXCEPT !.readers = @ \cup {i}]
    /\ reqs' = [reqs EXCEPT ![i].pc = "avgCount"]
    /\ UNCHANGED <<requestCount, errorCount, totalLatencyMs, mainpc, listen,
                   sigChan, serverErrChan, file, logfile>>

\* handleMetrics: the reads of the counters, one at a time: requestCount and
\* totalLatencyMs for the average, requestCount, errorCount.
ReadMetrics(i) ==
    /\ Alive
    /\ reqs[i].pc \in {"avgCount", "total", "count", "errors"}
    /\ reqs' =
          CASE reqs[i].pc = "avgCount" ->
                   [reqs EXCEPT ![i].pc = "total", ![i].snap.avgCount = requestCount]
            [] reqs[i].pc = "total" ->
                   [reqs EXCEPT ![i].pc = "count", ![i].snap.total = totalLatencyMs]
            [] reqs[i].pc = "count" ->
                   [reqs EXCEPT ![i].pc = "errors", ![i].snap.count = requestCount]
            [] reqs[i].pc = "errors" ->
                   [reqs EXCEPT ![i].pc = "runlock", ![i].snap.errors = errorCount]
    /\ UNCHANGED <<requestCount, errorCount, totalLatencyMs, metricsMutex, mainpc,
                   listen, sigChan, serverErrChan, file, logfile>>

\* handleMetrics returns: the deferred metricsMutex.RUnlock()
RUnlock(i) ==
    /\ Alive
    /\ reqs[i].pc = "runlock"
    /\ metricsMutex' = [metricsMutex EXCEPT !.readers = @ \ {i}]
    /\ reqs' = [reqs EXCEPT ![i].pc = "returned"]
    /\ UNCHANGED <<requestCount, errorCount, totalLatencyMs, mainpc, listen,
                   sigChan, serverErrChan, file, logfile>>

\* latency := time.Since(start)
Latency(i, ms) ==
    /\ Alive
    /\ reqs[i].pc = "returned"
    /\ reqs' = [reqs EXCEPT ![i].pc = "lock", ![i].latency = ms]
    /\ UNCHANGED <<requestCount, errorCount, totalLatencyMs, metricsMutex, mainpc,
                   listen, sigChan, serverErrChan, file, logfile>>

\* metricsMutex.Lock()
Lock(i) ==
    /\ Alive
    /\ reqs[i].pc = "lock"
    /\ CanLock(metricsMutex)
    /\ metricsMutex' = [metricsMutex EXCEPT !.writer = i]
    /\ reqs' = [reqs EXCEPT ![i].pc = "loadCount"]
    /\ UNCHANGED <<requestCount, errorCount, totalLatencyMs, mainpc, listen,
                   sigChan, serverErrChan, file, logfile>>

\* requestCount++; if rec.status >= 400 { errorCount++ };
\* totalLatencyMs += latency.Milliseconds(): each a load and a store.
Update(i) ==
    /\ Alive
    /\ reqs[i].pc \in {"loadCount", "storeCount", "loadErrors", "storeErrors",
                       "loadTotal", "storeTotal"}
    /\ LET r == reqs[i] IN
       CASE r.pc = "loadCount" ->
                /\ reqs' = [reqs EXCEPT ![i].pc = "storeCount", ![i].tmp = requestCount]
                /\ UNCHANGED <<requestCount, errorCount, totalLatencyMs>>
         [] r.pc = "storeCount" ->
                /\ requestCount' = r.tmp + 1
                /\ reqs' = [reqs EXCEPT ![i].pc = IF r.status >= 400 THEN "loadErrors"
                                                  ELSE "loadTotal"]
                /\ UNCHANGED <<errorCount, totalLatencyMs>>
         [] r.pc = "loadErrors" ->
                /\ reqs' = [reqs EXCEPT ![i].pc = "storeErrors", ![i].tmp = errorCount]
                /\ UNCHANGED <<requestCount, errorCount, totalLatencyMs>>
         [] r.pc = "storeErrors" ->
                /\ errorCount' = r.tmp + 1
                /\ reqs' = [reqs EXCEPT ![i].pc = "loadTotal"]
                /\ UNCHANGED <<requestCount, totalLatencyMs>>
         [] r.pc = "loadTotal" ->
                /\ reqs' = [reqs EXCEPT ![i].pc = "storeTotal", ![i].tmp = totalLatencyMs]
                /\ UNCHANGED <<requestCount, errorCount, totalLatencyMs>>
         [] r.pc = "storeTotal" ->
                /\ totalLatencyMs' = r.tmp + r.latency
                /\ reqs' = [reqs EXCEPT ![i].pc = "unlock"]
                /\ UNCHANGED <<requestCount, errorCount>>
    /\ UNCHANGED <<metricsMutex, mainpc, listen, sigChan, serverErrChan, file,
                   logfile>>

\* metricsMutex.Unlock()
Unlock(i) ==
    /\ Alive
    /\ reqs[i].pc = "unlock"
    /\ metricsMutex' = [metricsMutex EXCEPT !.writer = 0]
    /\ reqs' = [reqs EXCEPT ![i].pc = "log"]
    /\ UNCHANGED <<requestCount, errorCount, totalLatencyMs, mainpc, listen,
                   sigChan, serverErrChan, file, logfile>>

\* logJSON(... Message: "request completed"), and the middleware returns.
LogCompleted(i) ==
    /\ Alive
    /\ reqs[i].pc = "log"
    /\ reqs' = [reqs EXCEPT ![i].pc = "done"]
    /\ logfile' = LogAfterWrite(logfile, file,
                      RequestLine(reqs[i], <<"request", "completed">>,
                                  reqs[i].status, reqs[i].latency))
    /\ file' = FileAfterWrite(file)
    /\ UNCHANGED <<requestCount, errorCount, totalLatencyMs, metricsMutex, mainpc,
                   listen, sigChan, serverErrChan>>

\* The goroutine of the server logs "server starting".
ServerStarting ==
    /\ Alive
    /\ listen = "init"
    /\ listen' = "starting"
    /\ logfile' = LogAfterWrite(logfile, file, ServerLine(<<"server", "starting">>))
    /\ file' = FileAfterWrite(file)
    /\ UNCHANGED <<requestCount, errorCount, totalLatencyMs, metricsMutex, reqs,
                   mainpc, sigChan, serverErrChan>>

\* server.ListenAndServe() listens (ok), or returns an error that goes to
\* serverErrChan.
Listen(ok) ==
    /\ Alive
    /\ listen = "starting"
    /\ mainpc = "select"
    /\ listen' = IF ok THEN "listening" ELSE "failed"
    /\ serverErrChan' = ~ok
    /\ UNCHANGED <<requestCount, errorCount, totalLatencyMs, metricsMutex, reqs,
                   mainpc, sigChan, file, logfile>>

\* SIGINT or SIGTERM is delivered to sigChan.
Signal ==
    /\ Alive
    /\ ~sigChan
    /\ mainpc = "select"
    /\ sigChan' = TRUE
    /\ UNCHANGED <<requestCount, errorCount, totalLatencyMs, metricsMutex, reqs,
                   mainpc, listen, serverErrChan, file, logfile>>

\* case err := <-serverErrChan: stdoutLogger.Fatalf, which ends the process
\* with os.Exit(1): no deferred function runs.
Fatal ==
    /\ mainpc = "select"
    /\ serverErrChan
    /\ serverErrChan' = FALSE
    /\ mainpc' = "exited"
    /\ UNCHANGED <<requestCount, errorCount, totalLatencyMs, metricsMutex, reqs,
                   listen, sigChan, file, logfile>>

\* case sig := <-sigChan: the signal is logged and server.Shutdown(ctx) is
\* called, which closes the listener.
OnSignal ==
    /\ mainpc = "select"
    /\ sigChan
    /\ sigChan' = FALSE
    /\ mainpc' = "shutdown"
    /\ listen' = IF listen = "listening" THEN "closed" ELSE listen
    /\ logfile' = LogAfterWrite(logfile, file, ServerLine(<<"received", "signal">>))
    /\ file' = FileAfterWrite(file)
    /\ UNCHANGED <<requestCount, errorCount, totalLatencyMs, metricsMutex, reqs,
                   serverErrChan>>

\* server.Shutdown returns nil: no request is being served.
ShutdownDone ==
    /\ mainpc = "shutdown"
    /\ InFlight = {}
    /\ mainpc' = "sync"
    /\ logfile' = LogAfterWrite(logfile, file,
                                ServerLine(<<"server", "shutdown", "gracefully">>))
    /\ file' = FileAfterWrite(file)
    /\ UNCHANGED <<requestCount, errorCount, totalLatencyMs, metricsMutex, reqs,
                   listen, sigChan, serverErrChan>>

\* server.Shutdown returns the error of the context: the timeout has elapsed
\* with requests still being served. The error is logged, server.Close().
ShutdownTimeout ==
    /\ mainpc = "shutdown"
    /\ InFlight # {}
    /\ mainpc' = "sync"
    /\ logfile' = LogAfterWrite(logfile, file,
                                ServerLine(<<"server", "shutdown", "error">>))
    /\ file' = FileAfterWrite(file)
    /\ UNCHANGED <<requestCount, errorCount, totalLatencyMs, metricsMutex, reqs,
                   listen, sigChan, serverErrChan>>

\* The final file.Sync() of the signal case.
FinalSync ==
    /\ mainpc = "sync"
    /\ mainpc' = "deferSync"
    /\ file' = FileAfterSync(file)
    /\ UNCHANGED <<requestCount, errorCount, totalLatencyMs, metricsMutex, reqs,
                   listen, sigChan, serverErrChan, logfile>>

\* main returns: the deferred function, file.Sync() ...
DeferredSync ==
    /\ mainpc = "deferSync"
    /\ mainpc' = "deferClose"
    /\ file' = FileAfterSync(file)
    /\ UNCHANGED <<requestCount, errorCount, totalLatencyMs, metricsMutex, reqs,
                   listen, sigChan, serverErrChan, logfile>>

\* ... and file.Close().
DeferredClose ==
    /\ mainpc = "deferClose"
    /\ mainpc' = "return"
    /\ file' = [file EXCEPT !.closed = TRUE]
    /\ UNCHANGED <<requestCount, errorCount, totalLatencyMs, metricsMutex, reqs,
                   listen, sigChan, serverErrChan, logfile>>

\* The process ends with main.
Exit ==
    /\ mainpc = "return"
    /\ mainpc' = "exited"
    /\ UNCHANGED <<requestCount, errorCount, totalLatencyMs, metricsMutex, reqs,
                   listen, sigChan, serverErrChan, file, logfile>>

\* ---------------------------------------------------------- the worker pool
\* The defaults of -count and -concurrency.
DefaultPool == [total |-> 20, concurrency |-> 2]

\* The workers are numbered from 0, as main numbers them.
WorkerIds == 0..(MaxWorkers - 1)

NoWorker == [pc |-> "none", job |-> 0, success |-> FALSE, taken |-> <<>>]

\* Capacity of a channel made without buffer.
Capacity_Unbuffered(c) == 0

\* jobs := make(chan int, cfg.total)
Capacity(c) == c.total

\* main after parseConfig, with the channel made and no worker started.
PoolInit(c) ==
    /\ poolCfg = c
    /\ mainAt = "spawn"
    /\ loop = 0
    /\ jobsChan = <<>>
    /\ jobsClosed = FALSE
    /\ wg = 0
    /\ workers = [w \in WorkerIds |-> NoWorker]

\* wg.Add(1); go worker(i, ...)
Spawn ==
    /\ mainAt = "spawn"
    /\ loop < poolCfg.concurrency
    /\ wg' = wg + 1
    /\ workers' = [workers EXCEPT ![loop].pc = "range"]
    /\ loop' = loop + 1
    /\ UNCHANGED <<poolCfg, mainAt, jobsChan, jobsClosed>>

\* The first loop of main ends and the second begins.
SpawnDone ==
    /\ mainAt = "spawn"
    /\ loop >= poolCfg.concurrency
    /\ mainAt' = "enqueue"
    /\ loop' = 0
    /\ UNCHANGED <<poolCfg, jobsChan, jobsClosed, wg, workers>>

\* jobs <- i + 1: the send waits while the buffer is full.
Enqueue ==
    /\ mainAt = "enqueue"
    /\ loop < poolCfg.total
    /\ Len(jobsChan) < Capacity(poolCfg)
    /\ jobsChan' = Append(jobsChan, loop + 1)
    /\ loop' = loop + 1
    /\ UNCHANGED <<poolCfg, mainAt, jobsClosed, wg, workers>>

\* close(jobs), and main goes on to wg.Wait().
Close ==
    /\ mainAt = "enqueue"
    /\ loop >= poolCfg.total
    /\ jobsClosed' = TRUE
    /\ mainAt' = "wait"
    /\ UNCHANGED <<poolCfg, loop, jobsChan, wg, workers>>

\* wg.Wait() returns and main prints "client finished".
Finish ==
    /\ mainAt = "wait"
    /\ wg = 0
    /\ mainAt' = "finished"
    /\ UNCHANGED <<poolCfg, loop, jobsChan, jobsClosed, wg, workers>>

\* for job := range jobs: worker w receives the next job of the channel.
ReceiveJob(w) ==
    /\ workers[w].pc = "range"
    /\ jobsChan # <<>>
    /\ workers' = [workers EXCEPT ![w].pc = "request",
                                  ![w].job = Head(jobsChan),
                                  ![w].taken = Append(@, Head(jobsChan))]
    /\ jobsChan' = Tail(jobsChan)
    /\ UNCHANGED <<poolCfg, mainAt, loop, jobsClosed, wg>>

\* doRequestWithRetry returns, with success or without.
Request(w, ok) ==
    /\ workers[w].pc = "request"
    /\ workers' = [workers EXCEPT ![w].pc = "sleep", ![w].success = ok]
    /\ UNCHANGED <<poolCfg, mainAt, loop, jobsChan, jobsClosed, wg>>

\* time.Sleep(cfg.interval), and the worker ranges on.
IntervalSleep(w) ==
    /\ workers[w].pc = "sleep"
    /\ workers' = [workers EXCEPT ![w].pc = "range"]
    /\ UNCHANGED <<poolCfg, mainAt, loop, jobsChan, jobsClosed, wg>>

\* The channel is closed and empty: the range ends, the worker returns and
\* its deferred wg.Done() runs.
WorkerReturn(w) ==
    /\ workers[w].pc = "range"
    /\ jobsChan = <<>>
    /\ jobsClosed
    /\ workers' = [workers EXCEPT ![w].pc = "exited"]
    /\ wg' = wg - 1
    /\ UNCHANGED <<poolCfg, mainAt, loop, jobsChan, jobsClosed>>

\* -------------------------------------------------------------- Fluent Bit
\* Nothing read, nothing sent.
FluentBitInit ==
    /\ offset = 0
    /\ sink = <<>>

\* ----------------------------------------------------------------- actions
\* The script after loading, before its first call.
AggregatorInit ==
    /\ buffer = EmptyBuffer
    /\ buffer_order = <<>>
    /\ cleanup_counter = 0
    /\ now = 0
    /\ calls = 0
    /\ last = NoCall
    /\ hist = [k \in TraceIds |-> <<>>]
    /\ first = [k \in TraceIds |-> 0]
    /\ run = NoRun
    /\ idle = [k \in TraceIds |-> [at |-> -1, all |-> 0, valid |-> 0, others |-> 0]]
    /\ stamp = [k \in TraceIds |-> 0]
    /\ lost = [k \in TraceIds |-> 0]

Init ==
    /\ AggregatorInit
    /\ ClientInit(DefaultConfig, 0)
    /\ probe = NoProbe
    /\ ServerInit
    /\ FluentBitInit
    /\ PoolInit(DefaultPool)

\* The clock advances between calls.
Tick ==
    /\ now < MaxTime
    /\ now' = now + 1
    /\ UNCHANGED <<state, history, client, server, fluentbit, pool>>

\* One call combine_logs(tag, timestamp, record) at time now.
combine_logs(record) ==
    LET o == Outcome(buffer, buffer_order, cleanup_counter, now, record)
        valid == Keyed(record)
        k == record.traceId.val
    IN /\ buffer' = o.buf
       /\ buffer_order' = o.ord
       /\ cleanup_counter' = o.counter
       /\ calls' = calls + 1
       /\ last' = [record |-> record, ret |-> o.ret, time |-> now,
                   swept |-> o.swept, removed |-> o.removed,
                   evicted |-> o.evicted, created |-> o.created,
                   before |-> DOMAIN buffer]
       /\ hist' = IF valid
                  THEN HistAfter(hist, k, [record |-> record, at |-> o.ret.at])
                  ELSE hist
       /\ first' = IF valid /\ o.created
                   THEN [first EXCEPT ![k] = Len(hist'[k])]
                   ELSE first
       /\ run' = IF ~valid THEN NoRun
                 ELSE IF run.key = k THEN [run EXCEPT !.n = @ + 1]
                 ELSE [key |-> k, n |-> 1]
       /\ idle' = IdleAfter(idle, record, now)
       /\ stamp' = IF valid THEN [stamp EXCEPT ![k] = calls + 1] ELSE stamp
       /\ lost' = LostAfter(lost, hist, record, o.removed \cup o.evicted)
       /\ UNCHANGED now

Next ==
    \/ Tick
    \/ \E record \in Records :
           calls < MaxCalls /\ combine_logs(record) /\ UNCHANGED <<client, server, fluentbit, pool>>

Spec == Init /\ [][Next]_vars

NextSeq ==
    \/ Tick
    \/ \E record \in SeqRecords :
           calls < MaxCalls /\ combine_logs(record) /\ UNCHANGED <<client, server, fluentbit, pool>>

SpecSeq == Init /\ [][NextSeq]_vars

NextFields ==
    \/ Tick
    \/ \E record \in FieldRecords :
           calls < MaxFieldCalls /\ combine_logs(record) /\ UNCHANGED <<client, server, fluentbit, pool>>

SpecFields == Init /\ [][NextFields]_vars

NextSweep ==
    \/ Tick
    \/ \E record \in SweepRecords :
           calls < MaxSweepCalls /\ combine_logs(record) /\ UNCHANGED <<client, server, fluentbit, pool>>

SpecSweep == Init /\ [][NextSweep]_vars

NextEmit ==
    \/ Tick
    \/ \E record \in EmitRecords :
           calls < MaxCalls /\ combine_logs(record) /\ UNCHANGED <<client, server, fluentbit, pool>>

SpecEmit == Init /\ [][NextEmit]_vars

NextFrame ==
    \/ Tick
    \/ \E record \in FrameRecords :
           calls < MaxCalls /\ combine_logs(record) /\ UNCHANGED <<client, server, fluentbit, pool>>

SpecFrame == Init /\ [][NextFrame]_vars

\* The client alone: one worker, a run of one or more jobs against a server
\* that answers anything.
InitRetry ==
    /\ AggregatorInit
    /\ \E c \in Configs, total \in 1..MaxJobs : ClientInit(c, total)
    /\ probe = NoProbe
    /\ ServerInit
    /\ FluentBitInit
    /\ PoolInit(DefaultPool)

NextRetry ==
    \/ TakeJob /\ UNCHANGED <<aggregator, server, fluentbit, pool>>
    \/ \E resp \in Responses : Attempt(resp) /\ UNCHANGED <<aggregator, server, fluentbit, pool>>
    \/ Sleep /\ UNCHANGED <<aggregator, server, fluentbit, pool>>
    \/ Exhausted /\ UNCHANGED <<aggregator, server, fluentbit, pool>>
    \/ JobDone /\ UNCHANGED <<aggregator, server, fluentbit, pool>>
    \/ WorkerExit /\ UNCHANGED <<aggregator, server, fluentbit, pool>>

SpecRetry == InitRetry /\ [][NextRetry]_vars

\* The worker is a goroutine the scheduler runs, and client.Do returns, with a
\* response or with the error of the client's timeout: the client keeps taking
\* steps while it has one to take.
SpecRetryFair == SpecRetry /\ WF_vars(NextRetry)

\* doRequestWithRetry against a server that keeps failing, with many retries.
InitBackoff ==
    /\ AggregatorInit
    /\ \E c \in [maxRetries : 0..MaxBackoffRetries, target : {TRUE}] :
           ClientInit(c, 1)
    /\ probe = NoProbe
    /\ ServerInit
    /\ FluentBitInit
    /\ PoolInit(DefaultPool)

NextBackoff ==
    \/ TakeJob /\ UNCHANGED <<aggregator, server, fluentbit, pool>>
    \/ \E resp \in {Response(503), Response(200)} :
           Attempt(resp) /\ UNCHANGED <<aggregator, server, fluentbit, pool>>
    \/ Sleep /\ UNCHANGED <<aggregator, server, fluentbit, pool>>
    \/ Exhausted /\ UNCHANGED <<aggregator, server, fluentbit, pool>>
    \/ JobDone /\ UNCHANGED <<aggregator, server, fluentbit, pool>>
    \/ WorkerExit /\ UNCHANGED <<aggregator, server, fluentbit, pool>>

SpecBackoff == InitBackoff /\ [][NextBackoff]_vars

\* The pool, for every number of jobs and of workers within the bounds.
InitPool ==
    /\ AggregatorInit
    /\ ClientInit(DefaultConfig, 0)
    /\ probe = NoProbe
    /\ ServerInit
    /\ FluentBitInit
    /\ \E c \in [total : 0..MaxPoolJobs, concurrency : 1..MaxWorkers] : PoolInit(c)

NextPool ==
    \/ Spawn /\ UNCHANGED <<aggregator, client, server, fluentbit>>
    \/ SpawnDone /\ UNCHANGED <<aggregator, client, server, fluentbit>>
    \/ Enqueue /\ UNCHANGED <<aggregator, client, server, fluentbit>>
    \/ Close /\ UNCHANGED <<aggregator, client, server, fluentbit>>
    \/ Finish /\ UNCHANGED <<aggregator, client, server, fluentbit>>
    \/ \E w \in WorkerIds : ReceiveJob(w) /\ UNCHANGED <<aggregator, client, server, fluentbit>>
    \/ \E w \in WorkerIds, ok \in BOOLEAN :
           Request(w, ok) /\ UNCHANGED <<aggregator, client, server, fluentbit>>
    \/ \E w \in WorkerIds : IntervalSleep(w) /\ UNCHANGED <<aggregator, client, server, fluentbit>>
    \/ \E w \in WorkerIds : WorkerReturn(w) /\ UNCHANGED <<aggregator, client, server, fluentbit>>

SpecPool == InitPool /\ [][NextPool]_vars

\* main and the workers are goroutines the scheduler runs, and every call of
\* doRequestWithRetry returns: the pool keeps taking steps while it has one
\* to take.
SpecPoolFair == SpecPool /\ WF_vars(NextPool)

\* isRetryableError alone, on every pair of arguments within the bounds.
InitRetryable ==
    /\ AggregatorInit
    /\ ClientInit(DefaultConfig, 0)
    /\ \E e \in BOOLEAN, s \in 0..MaxStatusCode :
           probe = [err |-> e, statusCode |-> s, called |-> FALSE, result |-> FALSE]
    /\ ServerInit
    /\ FluentBitInit
    /\ PoolInit(DefaultPool)

NextRetryable == CallIsRetryable /\ UNCHANGED <<aggregator, server, fluentbit, pool>>

SpecRetryable == InitRetryable /\ [][NextRetryable]_vars

\* The server serving: requests for /hello and /metrics without the header
\* X-Trace-Id, while main waits at its select.
InitServing ==
    /\ AggregatorInit
    /\ ClientInit(DefaultConfig, 0)
    /\ probe = NoProbe
    /\ ServerServing
    /\ FluentBitInit
    /\ PoolInit(DefaultPool)

NextMetrics ==
    \/ \E i \in 1..MaxRequests, path \in Paths :
           Arrive(i, path, <<>>) /\ UNCHANGED <<aggregator, client, fluentbit, pool>>
    \/ \E i \in 1..MaxRequests, ok \in BOOLEAN :
           HandleHello(i, ok) /\ UNCHANGED <<aggregator, client, fluentbit, pool>>
    \/ \E i \in 1..MaxRequests : RLock(i) /\ UNCHANGED <<aggregator, client, fluentbit, pool>>
    \/ \E i \in 1..MaxRequests : ReadMetrics(i) /\ UNCHANGED <<aggregator, client, fluentbit, pool>>
    \/ \E i \in 1..MaxRequests : RUnlock(i) /\ UNCHANGED <<aggregator, client, fluentbit, pool>>
    \/ \E i \in 1..MaxRequests, ms \in Latencies :
           Latency(i, ms) /\ UNCHANGED <<aggregator, client, fluentbit, pool>>
    \/ \E i \in 1..MaxRequests : Lock(i) /\ UNCHANGED <<aggregator, client, fluentbit, pool>>
    \/ \E i \in 1..MaxRequests : Update(i) /\ UNCHANGED <<aggregator, client, fluentbit, pool>>
    \/ \E i \in 1..MaxRequests : Unlock(i) /\ UNCHANGED <<aggregator, client, fluentbit, pool>>
    \/ \E i \in 1..MaxRequests : LogCompleted(i) /\ UNCHANGED <<aggregator, client, fluentbit, pool>>

SpecMetrics == InitServing /\ [][NextMetrics]_vars

\* The life of the server, from the start of main to the end of the process,
\* with requests for /hello that carry the header X-Trace-Id.
NextServer ==
    \/ \E i \in 1..MaxRequests : Arrive(i, "/hello", A) /\ UNCHANGED <<aggregator, client, fluentbit, pool>>
    \/ \E i \in 1..MaxRequests : HandleHello(i, TRUE) /\ UNCHANGED <<aggregator, client, fluentbit, pool>>
    \/ \E i \in 1..MaxRequests : Latency(i, 50) /\ UNCHANGED <<aggregator, client, fluentbit, pool>>
    \/ \E i \in 1..MaxRequests : Lock(i) /\ UNCHANGED <<aggregator, client, fluentbit, pool>>
    \/ \E i \in 1..MaxRequests : Update(i) /\ UNCHANGED <<aggregator, client, fluentbit, pool>>
    \/ \E i \in 1..MaxRequests : Unlock(i) /\ UNCHANGED <<aggregator, client, fluentbit, pool>>
    \/ \E i \in 1..MaxRequests : LogCompleted(i) /\ UNCHANGED <<aggregator, client, fluentbit, pool>>
    \/ ServerStarting /\ UNCHANGED <<aggregator, client, fluentbit, pool>>
    \/ \E ok \in BOOLEAN : Listen(ok) /\ UNCHANGED <<aggregator, client, fluentbit, pool>>
    \/ Signal /\ UNCHANGED <<aggregator, client, fluentbit, pool>>
    \/ Fatal /\ UNCHANGED <<aggregator, client, fluentbit, pool>>
    \/ OnSignal /\ UNCHANGED <<aggregator, client, fluentbit, pool>>
    \/ ShutdownDone /\ UNCHANGED <<aggregator, client, fluentbit, pool>>
    \/ ShutdownTimeout /\ UNCHANGED <<aggregator, client, fluentbit, pool>>
    \/ FinalSync /\ UNCHANGED <<aggregator, client, fluentbit, pool>>
    \/ DeferredSync /\ UNCHANGED <<aggregator, client, fluentbit, pool>>
    \/ DeferredClose /\ UNCHANGED <<aggregator, client, fluentbit, pool>>
    \/ Exit /\ UNCHANGED <<aggregator, client, fluentbit, pool>>

SpecServer == Init /\ [][NextServer]_vars

\* ------------------------------------------------------------- end to end
\* Fluent Bit reads the next line of the log file and hands it to
\* combine_logs; a record returned with code 1 goes to the output.
Deliver ==
    /\ offset < Len(logfile)
    /\ combine_logs(logfile[offset + 1])
    /\ offset' = offset + 1
    /\ sink' = IF last'.ret.code = 1 THEN Append(sink, last'.ret.record) ELSE sink

\* The request the client is waiting for: the last one that arrived.
Newest == Cardinality({i \in 1..MaxRequests : reqs[i].pc # "none"})

\* What client.Do returns for a request the handler has returned from: the
\* response, or an error when the response could not be written.
ResponseOf(r) == IF r.status = 200 THEN Response(200) ELSE NetworkError

\* The client, the server and Fluent Bit with the aggregation filter: a run
\* of one or two jobs with at most one retry each, the server listening.
InitEndToEnd ==
    /\ AggregatorInit
    /\ \E m \in 0..1, total \in 1..MaxJobs :
           ClientInit([maxRetries |-> m, target |-> TRUE], total)
    /\ probe = NoProbe
    /\ ServerServing
    /\ FluentBitInit
    /\ PoolInit(DefaultPool)

NextEndToEnd ==
    \/ TakeJob /\ UNCHANGED <<aggregator, server, fluentbit, pool>>
    \/ \E i \in 1..MaxRequests :
           Send /\ Arrive(i, "/hello", traceID) /\ UNCHANGED <<aggregator, fluentbit, pool>>
    \/ /\ Newest > 0
       /\ reqs[Newest].pc \notin {"none", "handler"}
       /\ Receive(ResponseOf(reqs[Newest]))
       /\ UNCHANGED <<aggregator, server, fluentbit, pool>>
    \/ Receive(NetworkError) /\ UNCHANGED <<aggregator, server, fluentbit, pool>>
    \/ Sleep /\ UNCHANGED <<aggregator, server, fluentbit, pool>>
    \/ Exhausted /\ UNCHANGED <<aggregator, server, fluentbit, pool>>
    \/ JobDone /\ UNCHANGED <<aggregator, server, fluentbit, pool>>
    \/ WorkerExit /\ UNCHANGED <<aggregator, server, fluentbit, pool>>
    \/ \E i \in 1..MaxRequests, ok \in BOOLEAN :
           HandleHello(i, ok) /\ UNCHANGED <<aggregator, client, fluentbit, pool>>
    \/ \E i \in 1..MaxRequests : Latency(i, 50) /\ UNCHANGED <<aggregator, client, fluentbit, pool>>
    \/ \E i \in 1..MaxRequests : Lock(i) /\ UNCHANGED <<aggregator, client, fluentbit, pool>>
    \/ \E i \in 1..MaxRequests : Update(i) /\ UNCHANGED <<aggregator, client, fluentbit, pool>>
    \/ \E i \in 1..MaxRequests : Unlock(i) /\ UNCHANGED <<aggregator, client, fluentbit, pool>>
    \/ \E i \in 1..MaxRequests : LogCompleted(i) /\ UNCHANGED <<aggregator, client, fluentbit, pool>>
    \/ Deliver /\ UNCHANGED <<client, requestCount, errorCount, totalLatencyMs,
                              metricsMutex, reqs, mainpc, listen, sigChan,
                              serverErrChan, file, logfile, pool>>

SpecEndToEnd == InitEndToEnd /\ [][NextEndToEnd]_vars

\* ================================================================ claims
\* What the claims call things.
Live == DOMAIN buffer
Emitted == last.ret.at = "emit"
LastKey == last.record.traceId.val
LastFor(k) == Keyed(last.record) /\ LastKey = k

\* "absent, not a string, or the empty string"
NoCorrelationKey(record) ==
    \/ record.traceId.type = "nil"
    \/ record.traceId.type # "string"
    \/ record.traceId.val = <<>>

\* "an absent message counting as the empty string"
MessageText(record) ==
    IF record.message.type = "nil" THEN <<>> ELSE record.message.val

\* "the message contains the completion marker"
CompletionSignal(record) ==
    \E i \in 1..Len(MessageText(record)) - 1 :
        /\ MessageText(record)[i] = "request"
        /\ MessageText(record)[i + 1] = "completed"

\* The newline-join of the messages of the calls h[from..Len(h)].
RECURSIVE JoinFrom(_, _)
JoinFrom(h, from) ==
    IF from > Len(h) THEN <<>>
    ELSE IF from = Len(h) THEN MessageText(h[from].record)
    ELSE MessageText(h[from].record) \o <<"\n">> \o JoinFrom(h, from + 1)

\* The calls for k since its last flush are the last calls made, one after
\* the other: the sequence of a claim about one key.
Alone(k) == run.key = k /\ hist[k] # <<>> /\ run.n >= Len(hist[k])

\* Every call of the sequence but the last is no completion signal.
EndsInCompletion(h) ==
    /\ CompletionSignal(h[Len(h)].record)
    /\ \A i \in 1..(Len(h) - 1) : ~CompletionSignal(h[i].record)

\* C1 as claimed: for every sequence of records of one key k, fed in a row
\* from a state without group for k and ending in a completion signal, every
\* call but the last returns Suppress and the last returns Emit with the
\* newline-join of all the messages of the sequence.
C1_Claimed ==
    \A k \in TraceIds :
        Alone(k) =>
            /\ \A i \in 1..Len(hist[k]) :
                   ~CompletionSignal(hist[k][i].record) => hist[k][i].at = "suppress"
            /\ EndsInCompletion(hist[k]) =>
                   /\ Emitted
                   /\ last.ret.code = 1
                   /\ last.ret.record.message = Str(JoinFrom(hist[k], 1))

\* C1 as amended: the same, the join being that of the whole sequence when the
\* periodic cleanup removed the group of k on no call of the sequence (the
\* emitting group is the one the first record of the sequence created).
C1_JoinOfSequence ==
    \A k \in TraceIds :
        Alone(k) =>
            /\ \A i \in 1..Len(hist[k]) :
                   ~CompletionSignal(hist[k][i].record) => hist[k][i].at = "suppress"
            /\ EndsInCompletion(hist[k]) =>
                   /\ Emitted
                   /\ last.ret.code = 1
                   /\ last.ret.record.traceId = Str(k)
                   /\ first[k] = 1 =>
                          last.ret.record.message = Str(JoinFrom(hist[k], 1))

\* A sequence of three records, one of them without message, was emitted whole.
C1_Witness ==
    /\ Alone(A)
    /\ Len(hist[A]) = 3
    /\ first[A] = 1
    /\ Emitted
    /\ \E i \in 1..2 : hist[A][i].record.message = Nil
    /\ \E i \in 1..2 : hist[A][i].record.message # Nil

\* The records applied to the current group of k (or to the one just flushed).
GroupCalls(k) == SubSeq(hist[k], first[k], Len(hist[k]))

\* The value of field f on the last of the calls h that carries it, else nil.
LastPresent(h, f) ==
    IF \E i \in 1..Len(h) : h[i].record[f] # Nil
    THEN LET i == CHOOSE j \in 1..Len(h) :
                      /\ h[j].record[f] # Nil
                      /\ \A m \in (j + 1)..Len(h) : h[m].record[f] = Nil
         IN h[i].record[f]
    ELSE Nil

\* C2: for each status field, a live group holds, and an emitted record
\* carries, the value of the last record of the group on which the field was
\* present, and nil (absent) when no record of the group carried it.
C2_LastPresentValue ==
    \A k \in TraceIds : \A f \in StatusFields :
        /\ k \in Live => buffer[k][f] = LastPresent(GroupCalls(k), f)
        /\ (LastFor(k) /\ Emitted) =>
               last.ret.record[f] = LastPresent(GroupCalls(k), f)

\* An emitted record keeps the path of an earlier record although its last
\* record has none, and carries the status of its last record.
C2_Witness ==
    /\ Emitted
    /\ Len(GroupCalls(A)) = 3
    /\ last.record.path = Nil
    /\ last.ret.record.path = Str(<<"/hello">>)
    /\ last.ret.record.status = Num("200")
    /\ \E i \in 1..2 : GroupCalls(A)[i].record.status = Num("500")
    /\ last.ret.record.method = Str(<<"GET">>)

\* The order restricted to the traceIds of a set.
Restrict(ord, ids) == SelectSeq(ord, LAMBDA x : x \in ids)

\* C3: a record without correlation key is returned as it is (code 1, the
\* same record), and the call creates no group, changes no group that stays
\* nor its place in the order, and removes no group but a stale one (none
\* for lack of room).
C3_PassThrough ==
    [][(calls' = calls + 1 /\ NoCorrelationKey(last'.record)) =>
          /\ last'.ret.code = 1
          /\ last'.ret.record = last'.record
          /\ DOMAIN buffer' \subseteq DOMAIN buffer
          /\ \A k \in DOMAIN buffer' : buffer'[k] = buffer[k]
          /\ buffer_order' = Restrict(buffer_order, DOMAIN buffer')
          /\ \A k \in (DOMAIN buffer) \ (DOMAIN buffer') :
                 now - buffer[k].last_seen > STALE_TIMEOUT_SEC]_vars

\* A record whose traceId is not a string passed through a full buffer.
C3_Witness ==
    /\ last.record.traceId = Num("7")
    /\ last.ret.at = "pass"
    /\ Cardinality(Live) = MAX_BUFFER_SIZE

\* C4: never more than MAX_BUFFER_SIZE groups, nor traceIds in the order.
C4_CapacityBound ==
    /\ Cardinality(Live) <= MAX_BUFFER_SIZE
    /\ Len(buffer_order) <= MAX_BUFFER_SIZE

\* A third traceId arrived at a full buffer.
C4_Witness ==
    /\ Cardinality(Live) = MAX_BUFFER_SIZE
    /\ last.evicted # {}
    /\ \A k \in TraceIds : stamp[k] > 0

C6_Claimed ==
    [][\A k \in TraceIds :
          (/\ calls' = calls + 1
           /\ last'.record.traceId = Str(k)
           /\ CompletionSignal(last'.record)
           /\ hist[k] # <<>>
           /\ CompletionSignal(hist[k][Len(hist[k])].record)) =>
              ((hist[k][Len(hist[k])].at = "emit") # (last'.ret.at = "emit"))]_vars

\* The messages of the calls h.
Texts(h) == [i \in 1..Len(h) |-> MessageText(h[i].record)]

IsSuffix(s, t) ==
    Len(s) <= Len(t) /\ s = SubSeq(t, Len(t) - Len(s) + 1, Len(t))

NewKeyAtCapacity ==
    /\ Keyed(last.record)
    /\ LastKey \notin last.before
    /\ Cardinality(last.before) = MAX_BUFFER_SIZE

\* The groups the call removed.
Removed == last.before \ Live

\* x is the least recently touched of the groups the call found.
LeastRecent(x) == \A y \in last.before : stamp[x] <= stamp[y]

\* C8 as claimed: a record for a key without group that finds the buffer full
\* removes exactly one group, the least recently touched, and leaves
\* MAX_BUFFER_SIZE groups.
C8_Claimed ==
    NewKeyAtCapacity =>
        /\ Cardinality(Removed) = 1
        /\ \A x \in Removed : LeastRecent(x)
        /\ Cardinality(Live) = MAX_BUFFER_SIZE

\* C8 as amended: so it is when the periodic cleanup removes no group on that
\* call; and the groups left are MAX_BUFFER_SIZE unless the record is a
\* completion signal, whose new group is flushed at once.
C8_EvictsLeastRecent ==
    (NewKeyAtCapacity /\ last.removed = {}) =>
        /\ Cardinality(Removed) = 1
        /\ \A x \in Removed : LeastRecent(x)
        /\ Removed = last.evicted
        /\ Cardinality(Live) =
               IF CompletionSignal(last.record) THEN MAX_BUFFER_SIZE - 1
               ELSE MAX_BUFFER_SIZE

\* a, b, a again, then c: b is evicted, not the first inserted a.
C8_Witness ==
    /\ NewKeyAtCapacity
    /\ LastKey = C
    /\ Removed = {B}
    /\ stamp[A] > stamp[B]
    /\ Live = {A, C}

\* k got one record, no completion signal, and none since.
OneRecord(k) == Len(hist[k]) = 1 /\ ~CompletionSignal(hist[k][1].record)

\* C9 as claimed: a key that got one record and then none for
\* STALE_TIMEOUT_SEC + 1 seconds, while CLEANUP_INTERVAL records for other
\* keys were processed, has no group and got no Emit.
C9_Claimed ==
    \A k \in TraceIds :
        (/\ OneRecord(k)
         /\ now - idle[k].at >= STALE_TIMEOUT_SEC + 1
         /\ idle[k].others >= CLEANUP_INTERVAL) =>
            k \notin Live /\ hist[k][1].at = "suppress"

\* C9 as amended: the CLEANUP_INTERVAL records for other keys are processed
\* after the key has been idle for more than STALE_TIMEOUT_SEC seconds.
C9_GoneWithoutEmit ==
    \A k \in TraceIds :
        (OneRecord(k) /\ idle[k].valid >= CLEANUP_INTERVAL) =>
            k \notin Live /\ hist[k][1].at = "suppress"

\* The key got its record, was idle for STALE_TIMEOUT_SEC + 1 seconds, and
\* the records for the other key have removed its group.
C9_Witness ==
    /\ OneRecord(A)
    /\ idle[A].valid >= CLEANUP_INTERVAL
    /\ idle[A].at + STALE_TIMEOUT_SEC + 1 = last.time
    /\ A \notin Live
    /\ B \in Live

\* C10: the order holds the live traceIds, each once, and nothing else.
C10_OrderMatchesBuffer ==
    /\ {buffer_order[i] : i \in 1..Len(buffer_order)} = Live
    /\ \A i, j \in 1..Len(buffer_order) :
           buffer_order[i] = buffer_order[j] => i = j

\* After a cleanup that removed a group, with groups left.
C10_Witness ==
    /\ last.removed # {}
    /\ last.created
    /\ Len(buffer_order) = 1

\* The groups the call dropped: evicted for lack of room or removed as stale.
Dropped == last.removed \cup last.evicted

\* C11: a dropped group is dropped silently. The call that drops the group of
\* k returns 1 or -1 like any call, and what it emits, if it emits, holds
\* nothing of the dropped group: it is for another key, or it is the record
\* of the call alone. The calls that went to a dropped group are lost for
\* good: a live group holds messages of later calls only, and so does every
\* record emitted later.
C11_SilentDrop ==
    /\ calls > 0 => last.ret.code \in {1, -1}
    /\ \A k \in Dropped :
           (Emitted /\ LastFor(k)) =>
               last.ret.record.message = Str(MessageText(last.record))
    /\ \A k \in TraceIds :
           LET h == hist[k] IN
           /\ lost[k] <= Len(h)
           /\ k \in Live =>
                  /\ Len(buffer[k].messages) <= Len(h) - lost[k]
                  /\ IsSuffix(buffer[k].messages, Texts(h))
           /\ (LastFor(k) /\ Emitted) =>
                  \E j \in (lost[k] + 1)..Len(h) :
                      last.ret.record.message = Str(JoinFrom(h, j))

\* The group of A was dropped with a message in it, and a later completion
\* for A is emitted.
C11_Witness ==
    /\ Emitted
    /\ LastFor(A)
    /\ lost[A] >= 1
    /\ A \notin Dropped
    /\ Len(hist[A]) >= 2

\* The counter after one more counted call, and whether that call sweeps.
Counted(n) == IF n + 1 = CLEANUP_INTERVAL THEN 0 ELSE n + 1
Reaches(n) == n + 1 = CLEANUP_INTERVAL

Range(s) == {s[i] : i \in 1..Len(s)}

\* The groups that are stale at time t: untouched for more than
\* STALE_TIMEOUT_SEC.
StaleAt(t) == {k \in Live : t - buffer[k].last_seen > STALE_TIMEOUT_SEC}

\* C20: a call that sweeps at time now removes exactly the groups that are
\* stale at that time. Every other group, one aged exactly STALE_TIMEOUT_SEC
\* included, is left as it was: unless it is the group of the call's own
\* record or the one evicted to make room for it, it is live after the call
\* with the same messages, status fields and last_seen, and these groups
\* keep their relative position in buffer_order.
C20_SweepsExactlyStale ==
    [][(calls' = calls + 1 /\ last'.swept) =>
          LET kept == (Live \ StaleAt(now)) \ (last'.evicted \cup {LastKey'})
          IN /\ last'.removed = StaleAt(now)
             /\ \A k \in StaleAt(now) \ {LastKey'} :
                    k \notin Live' /\ k \notin Range(buffer_order')
             /\ \A k \in kept : k \in Live' /\ buffer'[k] = buffer[k]
             /\ Restrict(buffer_order', kept) = Restrict(buffer_order, kept)]_vars

\* A sweep at time 2 has removed the group of A, last seen at time 0, and left
\* the group of B, last seen at time 1 and so aged exactly STALE_TIMEOUT_SEC.
C20_Witness ==
    /\ last.swept
    /\ last.removed = {A}
    /\ B \in Live
    /\ ~LastFor(B)
    /\ last.time - buffer[B].last_seen = STALE_TIMEOUT_SEC

\* ------------------------------------------------------ claims: the client
\* "a retryable outcome (network error, status >= 500, or 429)"
RetryableOutcome(resp) == resp.err \/ resp.status >= 500 \/ resp.status = 429

\* "returns without error and with status below 400"
SuccessOutcome(resp) == ~resp.err /\ resp.status < 400

\* "a non-retryable failure status (400 to 499 other than 429)"
NonRetryableOutcome(resp) ==
    ~resp.err /\ resp.status \in 400..499 /\ resp.status # 429

\* doRequestWithRetry has returned.
Returned == pc \in {"done", "idle", "exit"} /\ traceID # <<>>

\* C13: isRetryableError(err, statusCode) is true exactly when err is not nil
\* or statusCode is 500 or more or statusCode is 429; with a nil err it is
\* false for every 2xx and 3xx status and every 4xx status but 429.
C13_RetryableExactly ==
    probe.called =>
        /\ probe.result = (probe.err \/ probe.statusCode >= 500 \/ probe.statusCode = 429)
        /\ (~probe.err /\ probe.statusCode \in (200..499) \ {429}) => ~probe.result

\* isRetryableError(nil, 429) has returned true.
C13_Witness ==
    /\ probe.called
    /\ ~probe.err
    /\ probe.statusCode = 429
    /\ probe.result

\* C14: once the first k requests of a call have failed with a retryable
\* outcome, k <= maxRetries, and request k+1 has succeeded, the call has
\* returned success: request k+1 is the last request, and the call slept
\* once before each of its k retries.
C14_SuccessAfterRetries ==
    \A k \in 0..(Len(requests) - 1) :
        (/\ k <= cfg.maxRetries
         /\ \A i \in 1..k : RetryableOutcome(requests[i])
         /\ SuccessOutcome(requests[k + 1])) =>
            /\ Returned
            /\ success
            /\ Len(requests) = k + 1
            /\ Len(sleeps) = k

\* The call returned success on its last attempt, after maxRetries retries.
C14_Witness ==
    /\ Returned
    /\ success
    /\ cfg.maxRetries >= 2
    /\ Len(requests) = cfg.maxRetries + 1
    /\ requests[Len(requests)].status = 204

\* C15: a request answered with a non-retryable failure status is the last
\* request of its call: the call has returned failure, and it has slept only
\* before the retries that led to this request.
C15_NoRetryOnClientError ==
    \A i \in 1..Len(requests) :
        NonRetryableOutcome(requests[i]) =>
            /\ Returned
            /\ ~success
            /\ Len(requests) = i
            /\ Len(sleeps) = i - 1

\* The call returned failure on a 404 with two attempts left.
C15_Witness ==
    /\ Returned
    /\ ~success
    /\ requests # <<>>
    /\ requests[Len(requests)].status = 404
    /\ Len(requests) + 2 <= cfg.maxRetries + 1

\* The requests of the call, bounded by maxRetries + 1; when all failed with a
\* retryable outcome the call returns after maxRetries + 1 of them, a failure.
AtMostRetries ==
    /\ Len(requests) <= IF cfg.maxRetries >= 0 THEN cfg.maxRetries + 1 ELSE 0
    /\ (/\ pc = "done"
        /\ cfg.maxRetries >= 0
        /\ requests # <<>>
        /\ \A i \in 1..Len(requests) : RetryableOutcome(requests[i])) =>
            /\ Len(requests) = cfg.maxRetries + 1
            /\ ~success

\* C16: a call never sends more than maxRetries + 1 requests; when every
\* attempt fails with a retryable outcome it sends exactly maxRetries + 1
\* requests and returns failure; and a call in its retry loop returns.
C16_ExactlyMaxRetriesPlusOne ==
    /\ []AtMostRetries
    /\ (pc \in {"loop", "sleep"}) ~> (pc = "done")

\* The call returned failure after maxRetries + 1 requests that all failed
\* with a retryable outcome, a network error among them.
C16_Witness ==
    /\ pc = "done"
    /\ ~success
    /\ cfg.maxRetries >= 1
    /\ Len(requests) = cfg.maxRetries + 1
    /\ \A i \in 1..Len(requests) : RetryableOutcome(requests[i])
    /\ \E i \in 1..Len(requests) : requests[i].err

\* ------------------------------------------------------ claims: the server
\* The requests that have returned from the update of the metrics.
Updated == {i \in 1..MaxRequests : reqs[i].pc \in {"log", "done"}}

\* The sum of the latencies of the requests in S.
RECURSIVE LatencySum(_)
LatencySum(S) ==
    IF S = {} THEN 0
    ELSE LET i == CHOOSE x \in S : TRUE
         IN reqs[i].latency + LatencySum(S \ {i})

\* The request has read the three counters for /metrics.
HasRead(i) ==
    reqs[i].path = "/metrics" /\ reqs[i].pc \in {"runlock", "returned", "lock",
        "loadCount", "storeCount", "loadErrors", "storeErrors", "loadTotal",
        "storeTotal", "unlock", "log", "done"}

\* C17: no update of the metrics is lost, and /metrics reads one state.
\* Whenever no request is inside the update, so also once all requests have
\* returned, requestCount is the number of the requests that have made their
\* update, errorCount the number of those with a recorded status of 400 or
\* more, totalLatencyMs the sum of their latencies. What a /metrics request
\* has read under the read lock are the counters as they are when it
\* unlocks: the two reads of requestCount agree with each other and with the
\* totalLatencyMs and the errorCount read.
C17_MetricsConsistent ==
    /\ metricsMutex.writer = 0 =>
           /\ requestCount = Cardinality(Updated)
           /\ errorCount = Cardinality({i \in Updated : reqs[i].status >= 400})
           /\ totalLatencyMs = LatencySum(Updated)
    /\ \A i \in 1..MaxRequests :
           /\ reqs[i].pc = "runlock" =>
                  reqs[i].snap = [avgCount |-> requestCount,
                                  total |-> totalLatencyMs,
                                  count |-> requestCount,
                                  errors |-> errorCount]
           /\ HasRead(i) =>
                  /\ reqs[i].snap.avgCount = reqs[i].snap.count
                  /\ reqs[i].snap.errors <= reqs[i].snap.count
                  /\ \E S \in SUBSET (1..MaxRequests) :
                         /\ reqs[i].snap.count = Cardinality(S)
                         /\ reqs[i].snap.total = LatencySum(S)
                         /\ reqs[i].snap.errors =
                                Cardinality({j \in S : reqs[j].status >= 400})

\* All requests have returned, one of them with status 500, and a /metrics
\* request among them has read the counters after the update of another.
C17_Witness ==
    /\ \A i \in 1..MaxRequests : reqs[i].pc = "done"
    /\ requestCount = MaxRequests
    /\ errorCount >= 1
    /\ \E i \in 1..MaxRequests :
           reqs[i].path = "/metrics" /\ reqs[i].snap.count >= 1
                                     /\ reqs[i].snap.errors = 1

\* main has written the line to the log file.
Logged(words) == \E n \in 1..Len(logfile) : logfile[n] = ServerLine(words)

\* main has returned from server.Shutdown.
AfterShutdown == mainpc \in {"sync", "deferSync", "deferClose", "return", "exited"}

\* The path of the signal: main is past server.Shutdown only with no request
\* being served any more, or after the timeout, which it has logged; the file
\* is closed only after a Sync, and main returns only after the final Sync
\* and the deferred one.
SignalPath ==
    /\ (AfterShutdown /\ Logged(<<"received", "signal">>)) =>
           \/ InFlight = {}
           \/ Logged(<<"server", "shutdown", "error">>)
    /\ file.closed => file.syncs >= 1
    /\ (mainpc \in {"return", "exited"} /\ Logged(<<"received", "signal">>)) =>
           file.closed /\ file.syncs >= 2

\* C18 as claimed: on a signal main calls server.Shutdown and goes on only
\* when no request is being served or the timeout has elapsed, and the log
\* file is synced before it is closed and before the process ends; and
\* however the process ends, nothing written to the log file is left
\* unsynced.
C18_Claimed ==
    /\ SignalPath
    /\ mainpc = "exited" => ~file.dirty

\* ------------------------------------------------------ claims: end to end
\* The run is over: the worker has returned, the server has served every
\* request and Fluent Bit has read the whole log file.
RunOver == pc = "exit" /\ InFlight = {} /\ offset = Len(logfile)

\* The lines the server wrote for a traceId, and the documents of the output
\* with that traceId.
LinesOf(id) == SelectSeq(logfile, LAMBDA r : r.traceId = Str(id))
DocsOf(id) == {n \in 1..Len(sink) : sink[n].traceId = Str(id)}

\* The newline-join of the messages of lines.
JoinLines(lines) == JoinFrom([n \in 1..Len(lines) |-> [record |-> lines[n]]], 1)

\* C12 as claimed: when the run is over, the output holds exactly one
\* combined document for every traceId the client used, and its message joins
\* all the lines the server wrote for that traceId, whether or not the
\* request of the job was retried.
C12_Claimed ==
    RunOver =>
        \A id \in issued :
            /\ Cardinality(DocsOf(id)) = 1
            /\ \A n \in DocsOf(id) : sink[n].message = Str(JoinLines(LinesOf(id)))

\* ------------------------------------------------- claims: the aggregator
\* The call about to be recorded in last finds a group for its key: the key
\* has a group before the call and the sweep of the call leaves it.
FindsGroup ==
    /\ calls' = calls + 1
    /\ Keyed(last'.record)
    /\ LastKey' \in Live
    /\ ~last'.created

\* C21: a record with a valid key that finds a group for its key touches it.
\* Unless the record is a completion signal, whose group is gone after the
\* call, the group has last_seen = now after the call and its key is the last
\* of buffer_order; in both cases the other keys that stay keep their
\* relative order, and no such call is answered before the touch (no call
\* ends as a suppressed duplicate with the group untouched).
C21_TouchOnEveryRecord ==
    [][FindsGroup =>
          LET k == LastKey'
              others == Live' \ {k}
          IN /\ Restrict(buffer_order', others) = Restrict(buffer_order, others)
             /\ ~CompletionSignal(last'.record) =>
                    /\ k \in Live'
                    /\ buffer'[k].last_seen = now
                    /\ buffer_order' # <<>>
                    /\ buffer_order'[Len(buffer_order')] = k
             /\ last'.ret.at = "duplicate" =>
                    /\ k \in Live'
                    /\ buffer'[k].last_seen = now
                    /\ buffer_order'[Len(buffer_order')] = k]_vars

\* The group of A, created before that of B and at an earlier time, got a
\* second record: A is now behind B in the order, with the time of the call.
C21_Witness ==
    /\ LastFor(A)
    /\ ~last.created
    /\ buffer_order = <<B, A>>
    /\ A \in Live /\ B \in Live
    /\ buffer[A].last_seen = last.time
    /\ buffer[B].last_seen < last.time
    /\ Len(hist[A]) = 2

\* C22: a record with a valid key that is no completion signal is answered by
\* Suppress (code -1, the record as it came), and after the call its key has
\* a live group whose messages end with the message of the record, the empty
\* string when it has none. The messages of a group only grow by appends:
\* a group that is live before and after a call, and was not removed and
\* created again by it, has the messages it had, with the message of the
\* call appended when the call is for its key.
C22_SuppressAndAppend ==
    [][calls' = calls + 1 =>
          /\ (Keyed(last'.record) /\ ~CompletionSignal(last'.record)) =>
                 LET k == LastKey'
                 IN /\ last'.ret.code = -1
                    /\ last'.ret.at = "suppress"
                    /\ last'.ret.record = last'.record
                    /\ k \in Live'
                    /\ buffer'[k].messages # <<>>
                    /\ buffer'[k].messages[Len(buffer'[k].messages)] =
                           MessageText(last'.record)
          /\ \A j \in Live \cap Live' :
                 IF LastFor(j)' /\ last'.created
                 THEN buffer'[j].messages = <<MessageText(last'.record)>>
                 ELSE IF LastFor(j)'
                 THEN buffer'[j].messages =
                          Append(buffer[j].messages, MessageText(last'.record))
                 ELSE buffer'[j].messages = buffer[j].messages]_vars

\* A record without message was suppressed and its empty string stands behind
\* the message of an earlier record of the group.
C22_Witness ==
    /\ last.record = Line(A, Nil)
    /\ last.ret.at = "suppress"
    /\ A \in Live
    /\ buffer[A].messages = <<HandlerFinished.val, <<>>>>

\* The groups the call about to be recorded removes for lack of room: they
\* are gone after the call, are not the group of the call's own key, and
\* were not removed as stale by a sweep of that call.
CapacityEvicted ==
    {j \in Live \ Live' :
        /\ j # LastKey'
        /\ ~(/\ Reaches(cleanup_counter)
             /\ now - buffer[j].last_seen > STALE_TIMEOUT_SEC)}

\* C23: a call removes a group for lack of room only when its key is valid
\* and has no group and MAX_BUFFER_SIZE groups are live. A call for a key
\* with a live group evicts nothing, and neither does a call that creates a
\* group while fewer than MAX_BUFFER_SIZE groups are live.
C23_EvictionOnlyAtCapacity ==
    [][calls' = calls + 1 =>
          /\ CapacityEvicted # {} =>
                 /\ Keyed(last'.record)
                 /\ LastKey' \notin Live
                 /\ Cardinality(Live) = MAX_BUFFER_SIZE
          /\ (Keyed(last'.record) /\ LastKey' \in Live) => CapacityEvicted = {}
          /\ (/\ Keyed(last'.record)
              /\ LastKey' \notin Live
              /\ Cardinality(Live) < MAX_BUFFER_SIZE) => CapacityEvicted = {}
          /\ CapacityEvicted = last'.evicted]_vars

\* After an eviction made room for C, a record for B, which has a group,
\* found the buffer full and evicted nothing.
C23_Witness ==
    /\ LastFor(B)
    /\ ~last.created
    /\ Cardinality(last.before) = MAX_BUFFER_SIZE
    /\ Live = {B, C}
    /\ last.before = Live
    /\ stamp[A] > 0
    /\ calls = 4

\* ------------------------------------------------ claims: the backoff
\* "min(100ms * 2^k, 2s)", in nanoseconds.
ClaimedDelay(k) == Int64(IF k >= 5 THEN 2000000000 ELSE 2^k * 100000000)

\* C24 as claimed: the sleep after failed attempt k is min(100ms * 2^k, 2s);
\* it is never negative and never more than 2 seconds, the sleeps of a call
\* never decrease, and there is one sleep after each failed attempt but the
\* last (attempt maxRetries), for every maxRetries.
C24_Claimed ==
    /\ \A i \in 1..Len(sleeps) :
           /\ sleeps[i] = ClaimedDelay(i - 1)
           /\ ~Negative(sleeps[i])
           /\ ~Greater(sleeps[i], TwoSeconds)
    /\ \A i \in 1..(Len(sleeps) - 1) : ~Greater(sleeps[i], sleeps[i + 1])
    /\ Len(sleeps) = Min(attempt, cfg.maxRetries)

\* The same for the calls with at most 37 retries, whose shifts stay below
\* the one that overflows.
BackoffBelowOverflow == cfg.maxRetries <= 37 => C24_Claimed

\* The sleeps are as claimed up to attempt 36, the last attempt of such a
\* call being followed by none.
BackoffBelowOverflowReached ==
    /\ cfg.maxRetries = 37
    /\ Len(sleeps) = 37
    /\ Len(requests) = 38
    /\ pc = "done"
    /\ ~success

\* ------------------------------------------- claims: the order of the log
\* The lines of the log file that request i wrote: the requests of
\* SpecMetrics come without X-Trace-Id, so each has a traceID of its own.
RequestLines(i) == SelectSeq(logfile, LAMBDA line : line.traceId = Str(Uuid(i)))

\* The position in the log file of the n-th line of request i.
PositionOf(i, n) ==
    CHOOSE p \in 1..Len(logfile) :
        /\ logfile[p].traceId = Str(Uuid(i))
        /\ Len(SelectSeq(SubSeq(logfile, 1, p),
                         LAMBDA line : line.traceId = Str(Uuid(i)))) = n

\* C25: whatever the interleaving of the requests, no line of a request
\* stands behind its "request completed" line in the log file. A request
\* whose middleware has returned has that line as the last of its lines, and
\* a request to /hello has exactly one line before it, "handler finished" or
\* "failed to encode response".
C25_CompletionLineLast ==
    \A i \in 1..MaxRequests :
        LET ls == RequestLines(i) IN
        /\ \A n \in 1..Len(ls) : CompletionSignal(ls[n]) => n = Len(ls)
        /\ reqs[i].pc = "done" =>
               /\ ls # <<>>
               /\ ls[Len(ls)].message = RequestCompleted
               /\ reqs[i].path = "/hello" =>
                      /\ Len(ls) = 2
                      /\ ls[1].message \in
                             {HandlerFinished,
                              Str(<<"failed", "to", "encode", "response">>)}

\* Two requests to /hello, served at the same time, both done: the handler
\* line of the second stands between the two lines of the first, whose
\* response could not be encoded.
C25_Witness ==
    /\ reqs[1].pc = "done" /\ reqs[2].pc = "done"
    /\ Len(RequestLines(1)) = 2 /\ Len(RequestLines(2)) = 2
    /\ RequestLines(1)[1].message = Str(<<"failed", "to", "encode", "response">>)
    /\ PositionOf(1, 1) < PositionOf(2, 1)
    /\ PositionOf(2, 1) < PositionOf(1, 2)
    /\ PositionOf(1, 2) < PositionOf(2, 2)

C28_OtherGroupsUntouched ==
    [][calls' = calls + 1 =>
          /\ \A j \in Live \cap Live' : ~LastFor(j)' => buffer'[j] = buffer[j]
          /\ Emitted' =>
                 LET k == LastKey'
                     h == hist'[k]
                 IN /\ Keyed(last'.record)
                    /\ last'.ret.record.traceId = last'.record.traceId
                    /\ \A i \in 1..Len(h) : h[i].record.traceId = Str(k)
                    /\ \E n \in 1..Len(h) :
                           last'.ret.record.message = Str(JoinFrom(h, n))
                    /\ \A f \in StatusFields :
                           last'.ret.record[f] \in
                               {Nil} \cup {h[i].record[f] : i \in 1..Len(h)}]_vars

\* The lines of A and B came interleaved; the completion of A emitted the
\* lines of A only and left the group of B with its message and fields.
C28_Witness ==
    /\ Emitted
    /\ LastFor(A)
    /\ stamp[B] = 2
    /\ calls = 3
    /\ last.ret.record.message = Str(<<"one", "\n", "request", "completed">>)
    /\ last.ret.record.status = Num("200")
    /\ last.ret.record.path = Nil
    /\ B \in Live
    /\ buffer[B].messages = <<(<<"two">>)>>
    /\ buffer[B].status = Num("500")
    /\ buffer[B].last_seen < last.time

\* ------------------------------------- claims: the sweep and the own group
\* The call about to be recorded sweeps and carries a record for a key whose
\* group is stale at that time.
SweepsOwnStaleGroup ==
    /\ calls' = calls + 1
    /\ Keyed(last'.record)
    /\ LastKey' \in Live
    /\ Reaches(cleanup_counter)
    /\ now - buffer[LastKey'].last_seen > STALE_TIMEOUT_SEC

\* C29: on such a call the sweep removes the group before the record is
\* applied, and the record creates a new group. A record that is no
\* completion signal leaves a group with its own message and fields only and
\* last_seen = now; a completion signal is emitted with its own message and
\* fields only. The messages and fields buffered before are in neither.
C29_SweepBeforeApply ==
    [][SweepsOwnStaleGroup =>
          LET k == LastKey'
              record == last'.record
          IN /\ k \in last'.removed
             /\ last'.created
             /\ IF CompletionSignal(record)
                THEN /\ last'.ret.at = "emit"
                     /\ last'.ret.record.message = Str(MessageText(record))
                     /\ \A f \in StatusFields : last'.ret.record[f] = record[f]
                     /\ k \notin Live'
                ELSE /\ last'.ret.at = "suppress"
                     /\ k \in Live'
                     /\ buffer'[k].messages = <<MessageText(record)>>
                     /\ \A f \in StatusFields : buffer'[k][f] = record[f]
                     /\ buffer'[k].last_seen = now]_vars

\* The group of A held the line "one" with status 200 and was stale when the
\* completion of A came on a sweeping call: the emitted record has the
\* message of the completion alone and no status.
C29_Witness ==
    /\ Emitted
    /\ LastFor(A)
    /\ last.swept
    /\ A \in last.removed
    /\ last.created
    /\ lost[A] >= 1
    /\ hist[A][1].record.status = Num("200")
    /\ last.ret.record.message = RequestCompleted
    /\ last.ret.record.status = Nil
    /\ last.ret.record.latencyMs = Num("52")

\* ------------------------------------------- claims: the order and the time
\* last_seen does not decrease along buffer_order, oldest first.
OrderedByLastSeen ==
    \A i, j \in 1..Len(buffer_order) :
        i < j => buffer[buffer_order[i]].last_seen <= buffer[buffer_order[j]].last_seen

\* At every time t the groups that are stale are the first n of buffer_order,
\* for some n.
StaleIsPrefix ==
    \A t \in 0..(MaxTime + STALE_TIMEOUT_SEC + 1) :
        \E n \in 0..Len(buffer_order) :
            {buffer_order[i] : i \in 1..n} = StaleAt(t)

\* C30: the clock never going back, last_seen does not decrease along
\* buffer_order from its oldest to its newest end; so the groups stale at a
\* time are a prefix of buffer_order, and a group evicted for lack of room
\* has a last_seen no group live at that call is below.
C30_OrderFollowsLastSeen ==
    /\ [](OrderedByLastSeen /\ StaleIsPrefix)
    /\ [][now' >= now]_vars
    /\ [][calls' = calls + 1 =>
             \A x \in CapacityEvicted : \A y \in Live :
                 buffer[x].last_seen <= buffer[y].last_seen]_vars

\* A and B came at time 0 and A again at time 1, which put it behind B; C, at
\* time 2, found the buffer full and evicted B, whose last_seen was the least.
C30_Witness ==
    /\ last.evicted = {B}
    /\ LastFor(C)
    /\ buffer_order = <<A, C>>
    /\ idle[B].at < buffer[A].last_seen
    /\ buffer[A].last_seen < buffer[C].last_seen
    /\ Len(hist[A]) = 2

\* ------------------------------------------------ claims: the worker pool
\* The workers main starts, and how often job id j has been taken from the
\* channel, by any of them.
Started == 0..(poolCfg.concurrency - 1)
TimesTaken(j) ==
    Cardinality({<<w, n>> \in WorkerIds \X (1..MaxPoolJobs + 1) :
                    n <= Len(workers[w].taken) /\ workers[w].taken[n] = j})
TimesInChannel(j) ==
    Cardinality({n \in 1..Len(jobsChan) : jobsChan[n] = j})

\* The job ids main has put into the channel so far.
Enqueued ==
    IF mainAt = "spawn" THEN {}
    ELSE IF mainAt = "enqueue" THEN 1..loop
    ELSE 1..poolCfg.total

\* No job is lost and none is taken twice: a job id main has enqueued is in
\* the channel or has been taken by one worker, once; nothing else is in the
\* channel or taken.
EachJobOnce ==
    /\ \A j \in Enqueued : TimesTaken(j) + TimesInChannel(j) = 1
    /\ \A j \in (1..MaxPoolJobs + 1) \ Enqueued :
           TimesTaken(j) = 0 /\ TimesInChannel(j) = 0
    /\ \A w \in WorkerIds :
           /\ \A n \in 1..Len(workers[w].taken) :
                  workers[w].taken[n] \in 1..poolCfg.total
           /\ w \notin Started => workers[w].taken = <<>>

\* The send of main never has to wait: there is room in the channel whenever
\* main is about to send.
ProducerNeverBlocks ==
    (mainAt = "enqueue" /\ loop < poolCfg.total) =>
        Len(jobsChan) < poolCfg.total

\* "client finished" is printed after every worker has returned, with every
\* job taken by exactly one worker.
FinishedAfterWorkers ==
    mainAt = "finished" =>
        /\ \A w \in Started : workers[w].pc = "exited"
        /\ jobsChan = <<>>
        /\ \A j \in 1..poolCfg.total : TimesTaken(j) = 1

\* C31: for every total >= 0 and concurrency >= 1 and every interleaving,
\* each job id 1..total is taken from the channel by exactly one worker, main
\* never waits to enqueue, "client finished" is printed only after all
\* workers have returned, and it is printed in the end, every call of
\* doRequestWithRetry returning.
C31_WorkerPool ==
    /\ [](EachJobOnce /\ ProducerNeverBlocks /\ FinishedAfterWorkers)
    /\ <>(mainAt = "finished")

\* Three jobs and two workers: the client has finished; worker 1 took jobs 1
\* and 3 and worker 0 took job 2 in between, and failed on it.
C31_Witness ==
    /\ mainAt = "finished"
    /\ poolCfg = [total |-> 3, concurrency |-> 2]
    /\ workers[0].taken = <<2>>
    /\ workers[1].taken = <<1, 3>>
    /\ ~workers[0].success
    /\ workers[1].success

\* ------------------------------------------- claims: the cleanup counter
\* C32: between calls 0 <= cleanup_counter < CLEANUP_INTERVAL; the counter
\* changes only on a call whose record has a valid traceId; and when the
\* cleanup runs, buffer_order holds at most MAX_BUFFER_SIZE traceIds, so the
\* loop that enforces the size removes nothing: what the cleanup removes is
\* stale.
C32_CounterAndSizeLoop ==
    /\ [](cleanup_counter \in 0..(CLEANUP_INTERVAL - 1))
    /\ [][cleanup_counter' # cleanup_counter =>
             /\ calls' = calls + 1
             /\ ~NoCorrelationKey(last'.record)]_vars
    /\ [][(calls' = calls + 1 /\ last'.swept) =>
             /\ Len(buffer_order) <= MAX_BUFFER_SIZE
             /\ last'.removed \subseteq StaleAt(now)]_vars

\* The cleanup ran on the third record with a valid traceId, the fourth call,
\* with buffer_order full: it removed nothing, and the room for the new
\* traceId was made by the eviction after it.
C32_Witness ==
    /\ calls = 4
    /\ last.swept
    /\ cleanup_counter = 0
    /\ Cardinality(last.before) = MAX_BUFFER_SIZE
    /\ last.removed = {}
    /\ last.evicted # {}
    /\ Len(buffer_order) = MAX_BUFFER_SIZE

====
